---- MODULE Spec2Model ----
(***************************************************************************)
(* Local-operator subsystem of the hedge nodal-DG solver:                  *)
(*   - the reference elements of hedge/discretization/local.py (numbering, *)
(*     node construction, memoized matrix accessors, face matching),       *)
(*   - the lifting kernels of src/python/cuda/fluxlocal.py (chunked) and    *)
(*     src/python/cuda/fluxlocal_alt.py (staged), as the thread programs    *)
(*     their generators emit.                                              *)
(* Python lists and tuples are TLA+ sequences (1-based); the indices the    *)
(* program stores (node numbers, face numbers, dofs) keep their 0-based    *)
(* values.  Real-valued results of external evaluators (basis functions,   *)
(* la.inv) are integer samples selected by the seed `numerics`.            *)
(***************************************************************************)
EXTENDS Integers, Sequences, FiniteSets, TLC

\* ------------------------------------------------------------------ bounds
MaxOrder == 3
MaxMatrixNodes == 6
MaxSeed == 0
MaxVertexId == 2        \* vertex numbers of the faces handed to the matcher
MaxFaceVertices == 3    \* longest vertex tuple handed to the matcher
MaxChunkSize == 2       \* lplan.chunk_size; dofs per element and face dofs
                        \* per element go one beyond it
MaxElements == 2        \* microblock.elements
MaxPadding == 2         \* alignment padding of a microblock
MaxPar == 2             \* parallelism.p
MaxSeq == 2             \* parallelism.s
MaxThreads == 2         \* threads of the block that is followed
MaxCalls == 6           \* __call__s made on one kernel object
MaxBenchmarks == 1       \* benchmark() runs made on one kernel object
MaxGrid == 2             \* macroblocks of one launch
MaxSharedMemory == 96   \* bytes of shared memory of the device
MaxNegativeOrder == 2   \* orders down to -MaxNegativeOrder are asked for
MaxJacobian == 2         \* largest |jacobian| and |face jacobian| of an element
MaxAlphaOrder == 48     \* orders the warp constant is looked up for

VARIABLES
    kind,                   \* "interval" | "triangle" | "tetrahedron"
    order,                  \* self.order
    fancy_node_ordering,    \* TriangleDiscretization option
    numerics,               \* seed of the externally computed real values
    memo,                   \* the @memoize_method caches of the element
    last,                   \* the last accessor call and what it returned
    warp,                   \* node construction: the locals of the step under way
    face_1_vertices,        \* arguments of the last face matching call
    face_2_vertices,
    lplan,                  \* chunked kernel: the plan it was generated from
    mod,                    \* chunked kernel: the generated module
    MB_CHUNK,               \* chunked kernel: blockIdx.x of the block followed
    pc,                     \* chunked kernel: position and registers per thread
    chunk_start_el,         \* chunked kernel: __shared__ uint16
    chunk_stop_el,
    chunk_el_count,
    dof_buffer,             \* chunked kernel: __shared__ staging buffer
    flux,                   \* chunked kernel: output entries written
    plan,                   \* staged kernel: the plan it was generated from
    mod_alt,                \* staged kernel: the generated module
    pc_alt,                 \* staged kernel: position and registers per thread
    smem_fluxes_on_faces,   \* staged kernel: __shared__ staging buffer
    flux_alt,               \* staged kernel: output entries written
    element_groups,         \* kernel object: discr.element_groups
    memoize_dic_get_kernel, \* kernel object: cache of the memoized get_kernel
    compilations,           \* kernel object: runs of the body of get_kernel
    launches,               \* kernel object: the __call__s made and what they ran
    discr,                  \* kernel object: debug flags and instrumentation of discr
    benchmarks,             \* kernel object: the runs of benchmark() made
    launch,                 \* one launch, all blocks: the stores made so far
    devdata,                \* planning: the device limits
    given,                  \* planning: the discretization parameters
    planning,               \* planning: not run yet, the plan, or the error
    kernel                  \* planning: what plan.make_kernel(discr) returned

elem_vars == <<kind, order, fancy_node_ordering, numerics, memo, last, warp>>
shuffle_vars == <<face_1_vertices, face_2_vertices>>
chunked_vars ==
    <<lplan, mod, MB_CHUNK, pc, chunk_start_el, chunk_stop_el, chunk_el_count,
      dof_buffer, flux>>
staged_vars == <<plan, mod_alt, pc_alt, smem_fluxes_on_faces, flux_alt>>
plan_vars == <<devdata, given, planning, kernel>>
host_vars ==
    <<element_groups, memoize_dic_get_kernel, compilations, launches, discr,
      benchmarks, launch, plan_vars>>
kernel_vars == <<chunked_vars, staged_vars, host_vars>>

vars == <<elem_vars, shuffle_vars, kernel_vars>>

\* --------------------------------------------------------------- utilities
Range(s) == {s[i] : i \in 1..Len(s)}

Ok(v) == [st |-> "ok", val |-> v]
Raise(e) == [st |-> "error", exc |-> e]
Unset == [st |-> "unset"]

\* F applied to the value of v, v evaluated once
Bind(v, F(_)) == CHOOSE r \in {F(x) : x \in {v}} : TRUE

RECURSIVE MapSeq(_, _)
MapSeq(F(_), s) ==
    IF s = <<>> THEN <<>> ELSE <<F(Head(s))>> \o MapSeq(F, Tail(s))

RECURSIVE SumSeq(_)
SumSeq(s) == IF s = <<>> THEN 0 ELSE Head(s) + SumSeq(Tail(s))

RECURSIVE Concat(_)
Concat(ss) == IF ss = <<>> THEN <<>> ELSE Head(ss) \o Concat(Tail(ss))

\* range(n) as a sequence
RECURSIVE PyRange(_)
PyRange(n) == IF n <= 0 THEN <<>> ELSE Append(PyRange(n - 1), n - 1)

RECURSIVE Factorial(_)
Factorial(n) == IF n <= 0 THEN 1 ELSE n * Factorial(n - 1)

\* ------------------------------------------------------- reference element
Kinds == {"interval", "triangle", "tetrahedron"}

dimensions(k) ==
    CASE k = "interval" -> 1
      [] k = "triangle" -> 2
      [] k = "tetrahedron" -> 3

\* pytools generator used by node_tuples, face_indices and
\* generate_mode_identifiers: the first entry varies fastest.
RECURSIVE generate_nonnegative_integer_tuples_summing_to_at_most(_, _)
generate_nonnegative_integer_tuples_summing_to_at_most(n, length) ==
    IF length = 0 THEN << <<>> >>
    ELSE Concat(MapSeq(
            LAMBDA i : MapSeq(LAMBDA t : Append(t, i),
                generate_nonnegative_integer_tuples_summing_to_at_most(
                    n - i, length - 1)),
            PyRange(n + 1)))

\* int(reduce(mul, (o + 1 + i for i in range(d))) / factorial(d))
RECURSIVE ProductFrom(_, _)
ProductFrom(o, d) == IF d = 0 THEN 1 ELSE (o + d) * ProductFrom(o, d - 1)

\* faulty variant: the product starts at o instead of o + 1
node_count_body_from_o(k, o) ==
    ProductFrom(o - 1, dimensions(k)) \div Factorial(dimensions(k))

node_count_body(k, o) == ProductFrom(o, dimensions(k)) \div Factorial(dimensions(k))

\* faulty variant: the interval without its order-0 case (node 0 on face 0 only)
faces_for_node_tuple_no_order0(k, o, nt) ==
    CASE k = "interval" ->
            IF nt = <<0>> THEN <<0>>
            ELSE IF nt = <<o>> THEN <<1>>
            ELSE <<>>
      [] k = "triangle" ->
            (IF nt[2] = 0 THEN <<0>> ELSE <<>>)
            \o (IF nt[2] + nt[1] = o THEN <<1>> ELSE <<>>)
            \o (IF nt[1] = 0 THEN <<2>> ELSE <<>>)
      [] k = "tetrahedron" ->
            (IF nt[3] = 0 THEN <<0>> ELSE <<>>)
            \o (IF nt[2] = 0 THEN <<1>> ELSE <<>>)
            \o (IF nt[1] = 0 THEN <<2>> ELSE <<>>)
            \o (IF nt[2] + nt[1] + nt[3] = o THEN <<3>> ELSE <<>>)

\* faces_for_node_tuple of the three element classes
faces_for_node_tuple(k, o, nt) ==
    CASE k = "interval" ->
            IF nt = <<0>> THEN (IF o = 0 THEN <<0, 1>> ELSE <<0>>)
            ELSE IF nt = <<o>> THEN <<1>>
            ELSE <<>>
      [] k = "triangle" ->
            (IF nt[2] = 0 THEN <<0>> ELSE <<>>)
            \o (IF nt[2] + nt[1] = o THEN <<1>> ELSE <<>>)
            \o (IF nt[1] = 0 THEN <<2>> ELSE <<>>)
      [] k = "tetrahedron" ->
            (IF nt[3] = 0 THEN <<0>> ELSE <<>>)
            \o (IF nt[2] = 0 THEN <<1>> ELSE <<>>)
            \o (IF nt[1] = 0 THEN <<2>> ELSE <<>>)
            \o (IF nt[2] + nt[1] + nt[3] = o THEN <<3>> ELSE <<>>)

\* the groups add_face_nodes is called with, in order
fancy_face_groups == << {}, {0}, {0, 1}, {1}, {1, 2}, {2}, {0, 2} >>

fancy_node_tuples(o, node_tups) ==
    LET faces_to_nodes(fs) ==
            SelectSeq(node_tups,
                LAMBDA nt : Range(faces_for_node_tuple("triangle", o, nt)) = fs)
    IN  Bind(Concat(MapSeq(faces_to_nodes, fancy_face_groups)), LAMBDA result :
            IF Range(result) = Range(node_tups) /\ Len(result) = Len(node_tups)
            THEN Ok(result)
            ELSE Raise("AssertionError"))

node_tuples_body(k, o, fancy) ==
    CASE k = "interval" -> Ok(MapSeq(LAMBDA i : <<i>>, PyRange(o + 1)))
      [] k = "triangle" ->
            Bind(generate_nonnegative_integer_tuples_summing_to_at_most(o, 2),
                LAMBDA node_tups :
                    IF ~fancy THEN Ok(node_tups)
                    ELSE fancy_node_tuples(o, node_tups))
      [] k = "tetrahedron" ->
            Ok(generate_nonnegative_integer_tuples_summing_to_at_most(o, 3))

\* node_tup_to_idx = dict((ituple, idx) for idx, ituple in enumerate(...)):
\* the last index of a repeated key wins
node_tup_to_idx(node_tups, nt) ==
    (CHOOSE i \in 1..Len(node_tups) :
        node_tups[i] = nt /\ \A j \in (i + 1)..Len(node_tups) : node_tups[j] # nt) - 1

\* pytools.wandering_element(length, wanderer): the tuples of zeros with
\* wanderer at position 0, 1, ..., length - 1
wandering_element(length, wanderer) ==
    MapSeq(LAMBDA i : [j \in 1..length |-> IF j = i + 1 THEN wanderer ELSE 0],
           PyRange(length))

\* faulty variant: the wanderer starts at the last position
vertex_indices_body_reversed(k, o, node_tups) ==
    LET vertex_tuples ==
            <<[j \in 1..dimensions(k) |-> 0]>>
            \o MapSeq(LAMBDA i : [j \in 1..dimensions(k) |->
                                    IF j = dimensions(k) - i THEN o ELSE 0],
                      PyRange(dimensions(k)))
    IN  Ok(MapSeq(LAMBDA vt : node_tup_to_idx(node_tups, vt), vertex_tuples))

\* vertex_tuples = [self.dimensions*(0,)] + list(wandering_element(
\* self.dimensions, wanderer=self.order)); [node_tup_to_idx[vt] for vt in ...]
vertex_indices_body(k, o, node_tups) ==
    LET vertex_tuples ==
            <<[j \in 1..dimensions(k) |-> 0]>>
            \o wandering_element(dimensions(k), o)
    IN  IF \E i \in 1..Len(vertex_tuples) :
                vertex_tuples[i] \notin Range(node_tups)
        THEN Raise("KeyError")
        ELSE Ok(MapSeq(LAMBDA vt : node_tup_to_idx(node_tups, vt),
                       vertex_tuples))

face_indices_body(k, o, node_tups) ==
    Bind(generate_nonnegative_integer_tuples_summing_to_at_most(o, dimensions(k)),
        LAMBDA gen :
            IF \E i \in 1..Len(gen) : gen[i] \notin Range(node_tups)
            THEN Raise("KeyError")
            ELSE Ok(MapSeq(
                    LAMBDA f : MapSeq(LAMBDA nt : node_tup_to_idx(node_tups, nt),
                        SelectSeq(gen,
                            LAMBDA nt : f \in Range(faces_for_node_tuple(k, o, nt)))),
                    PyRange(dimensions(k) + 1))))

\* ----------------------------------------------------------------- nodes
\* equidistant_barycentric_nodes: i / self.order for every index of every
\* node tuple (true division: order 0 raises), then (1 - sum, i1/o, ...).
\* A coordinate is kept as its numerator over the common denominator `order`.
equidistant_barycentric_nodes(o, node_tups) ==
    IF o = 0 /\ node_tups # <<>> THEN Raise("ZeroDivisionError")
    ELSE Ok(MapSeq(LAMBDA nt : <<o - SumSeq(nt)>> \o nt, node_tups))

\* IntervalDiscretization.nodes
interval_nodes(o) ==
    IF o = 0 THEN Ok(<< [point |-> "0.5"] >>)
    ELSE Ok(MapSeq(LAMBDA i : [lgl |-> i, n |-> o], PyRange(o + 1)))

\* Triangle/TetrahedronDiscretization.equilateral_nodes mapped through
\* equilateral_to_unit: one warped node per equidistant barycentric node
warped_unit_nodes(o, node_tups) ==
    Bind(equidistant_barycentric_nodes(o, node_tups), LAMBDA bary :
        IF bary.st # "ok" THEN bary
        ELSE Ok(MapSeq(LAMBDA bp : [bary |-> bp, den |-> o], bary.val)))

\* -------------------------------------------------------------- matrices
\* a dense matrix: a sequence of rows; At reads the 0-based entry (r, c)
Mat(h, w, F(_, _)) ==
    [rows |-> h, cols |-> w,
     at |-> MapSeq(LAMBDA r : MapSeq(LAMBDA c : F(r, c), PyRange(w)), PyRange(h))]

At(A, r, c) == A.at[r + 1][c + 1]

Zeros(h, w) == Mat(h, w, LAMBDA r, c : 0)

Transpose(A) == Mat(A.cols, A.rows, LAMBDA r, c : At(A, c, r))

RECURSIVE DotEntry(_, _, _, _, _)
DotEntry(A, B, r, c, k) ==
    IF k = A.cols THEN 0
    ELSE At(A, r, k) * At(B, k, c) + DotEntry(A, B, r, c, k + 1)

\* numpy.dot of two matrices
Dot(A, B) == Mat(A.rows, B.cols, LAMBDA r, c : DotEntry(A, B, r, c, 0))

\* the value an external evaluator returns at (r, c): a nonzero sample
Sample(seed, r, c) == 1 + ((seed + 2 * r + 3 * c + r * c) % 5)

\* hedge.polynomial.generic_vandermonde(points, functions)
generic_vandermonde(points, n_functions, seed) ==
    Mat(Len(points), n_functions, LAMBDA r, c : Sample(seed, r, c))

\* numpy.linalg.inv: a matrix of the shape of its argument
la_inv(A, seed) == Mat(A.rows, A.cols, LAMBDA r, c : Sample(seed + At(A, r, c), c, r))

\* number of basis_functions(): one per mode identifier
basis_count(k, o) ==
    Len(generate_nonnegative_integer_tuples_summing_to_at_most(o, dimensions(k)))

\* number of face_basis() functions
face_basis_count(k, o) ==
    CASE k = "interval" -> 1
      [] k = "triangle" -> Len(PyRange(o + 1))
      [] k = "tetrahedron" ->
            Len(generate_nonnegative_integer_tuples_summing_to_at_most(o, 2))

\* faulty variant: the block is written to rows 0..k-1 instead of rows f_indices
scatter_face_rows_in_order(result, face_mass_matrix, i_face, f_indices) ==
    LET fmm_width == face_mass_matrix.cols
    IN  Mat(result.rows, result.cols,
            LAMBDA r, c :
                IF c >= i_face * fmm_width /\ c < (i_face + 1) * fmm_width
                    /\ r < Len(f_indices)
                THEN At(face_mass_matrix, r, c - i_face * fmm_width)
                ELSE At(result, r, c))

\* result[f_indices, i_face*fmm_width : (i_face + 1)*fmm_width] = face_mass_matrix
\* for one face: row f_indices[k] of the column block receives row k
scatter_face(result, face_mass_matrix, i_face, f_indices) ==
    LET fmm_width == face_mass_matrix.cols
        hit(r) == {k \in 1..Len(f_indices) : f_indices[k] = r}
        lastk(r) == CHOOSE k \in hit(r) : \A j \in hit(r) : j <= k
    IN  Mat(result.rows, result.cols,
            LAMBDA r, c :
                IF c >= i_face * fmm_width /\ c < (i_face + 1) * fmm_width
                    /\ hit(r) # {}
                THEN At(face_mass_matrix, lastk(r) - 1, c - i_face * fmm_width)
                ELSE At(result, r, c))

RECURSIVE scatter_faces(_, _, _, _)
scatter_faces(result, face_mass_matrix, fi, i_face) ==
    IF i_face = Len(fi) THEN result
    ELSE scatter_faces(
            scatter_face(result, face_mass_matrix, i_face, fi[i_face + 1]),
            face_mass_matrix, fi, i_face + 1)

\* LocalDiscretization._assemble_multi_face_mass_matrix after its assertion,
\* given the values of node_count(), face_count() and face_indices()
assemble_multi_face_mass_matrix(face_mass_matrix, nc, fc, fi) ==
    IF \E f \in 1..Len(fi) : Len(fi[f]) # face_mass_matrix.rows
    THEN Raise("ValueError")
    ELSE Ok(scatter_faces(Zeros(nc, fc * face_mass_matrix.cols),
                          face_mass_matrix, fi, 0))

\* faulty variant: the inverse mass matrix is not applied
lifting_matrix_body_no_inverse_mass(inverse_mass, multi_face_mass) == multi_face_mass

\* numpy.dot(self.inverse_mass_matrix(), self.multi_face_mass_matrix())
lifting_matrix_body(inverse_mass, multi_face_mass) == Dot(inverse_mass, multi_face_mass)

\* ------------------------------------------------------ memoized accessors
MemoKeys ==
    {"node_count", "node_tuples", "face_indices", "face_count",
     "face_node_count", "unit_nodes", "unit_face_nodes", "vandermonde",
     "inverse_mass_matrix", "face_vandermonde", "face_mass_matrix",
     "multi_face_mass_matrix", "lifting_matrix",
     "get_face_index_shuffle_lookup_map",
     "grad_vandermonde", "mass_matrix", "differentiation_matrices",
     "vertex_indices"}

\* pytools.memoize_method: a cached value is returned as is; a value the body
\* returns is cached; an exception is not
memoize_method(m, key, Body(_)) ==
    IF m[key].st = "ok" THEN [memo |-> m, res |-> m[key]]
    ELSE Bind(Body(m), LAMBDA r :
            IF r.res.st = "ok"
            THEN [memo |-> [r.memo EXCEPT ![key] = r.res], res |-> r.res]
            ELSE r)

\* a call whose exception propagates out of the caller
Then(call, Rest(_)) ==
    Bind(call, LAMBDA c : IF c.res.st # "ok" THEN c ELSE Rest(c))

node_count(m) ==
    memoize_method(m, "node_count", LAMBDA m0 :
        [memo |-> m0, res |-> Ok(node_count_body(kind, order))])

node_tuples(m) ==
    memoize_method(m, "node_tuples", LAMBDA m0 :
        [memo |-> m0, res |-> node_tuples_body(kind, order, fancy_node_ordering)])

face_indices(m) ==
    memoize_method(m, "face_indices", LAMBDA m0 :
        Then(node_tuples(m0), LAMBDA c :
            [memo |-> c.memo, res |-> face_indices_body(kind, order, c.res.val)]))

vertex_indices(m) ==
    memoize_method(m, "vertex_indices", LAMBDA m0 :
        Then(node_tuples(m0), LAMBDA c :
            [memo |-> c.memo, res |-> vertex_indices_body(kind, order, c.res.val)]))

face_count(m) ==
    memoize_method(m, "face_count", LAMBDA m0 :
        Then(face_indices(m0), LAMBDA c :
            [memo |-> c.memo, res |-> Ok(Len(c.res.val))]))

face_node_count(m) ==
    memoize_method(m, "face_node_count", LAMBDA m0 :
        Then(face_indices(m0), LAMBDA c :
            [memo |-> c.memo, res |-> Ok(Len(c.res.val[1]))]))

\* IntervalDiscretization: unit_nodes = nodes (not memoized);
\* PkSimplexDiscretization.unit_nodes otherwise
unit_nodes(m) ==
    IF kind = "interval" THEN [memo |-> m, res |-> interval_nodes(order)]
    ELSE memoize_method(m, "unit_nodes", LAMBDA m0 :
            Then(node_tuples(m0), LAMBDA c :
                [memo |-> c.memo, res |-> warped_unit_nodes(order, c.res.val)]))

\* [unodes[i][:dim-1] for i in face_indices[0]]
unit_face_nodes_body(unodes, fi) ==
    IF \E i \in Range(fi[1]) : i >= Len(unodes) THEN Raise("IndexError")
    ELSE Ok(MapSeq(LAMBDA i : unodes[i + 1], fi[1]))

unit_face_nodes(m) ==
    memoize_method(m, "unit_face_nodes", LAMBDA m0 :
        Then(unit_nodes(m0), LAMBDA c1 :
            Then(face_indices(c1.memo), LAMBDA c2 :
                [memo |-> c2.memo,
                 res |-> unit_face_nodes_body(c1.res.val, c2.res.val)])))

vandermonde(m) ==
    memoize_method(m, "vandermonde", LAMBDA m0 :
        Then(unit_nodes(m0), LAMBDA c :
            [memo |-> c.memo,
             res |-> Ok(generic_vandermonde(c.res.val,
                            basis_count(kind, order), numerics))]))

\* numpy.dot(v, v.T)
inverse_mass_matrix_body(v) == Dot(v, Transpose(v))

inverse_mass_matrix(m) ==
    memoize_method(m, "inverse_mass_matrix", LAMBDA m0 :
        Then(vandermonde(m0), LAMBDA c :
            [memo |-> c.memo, res |-> Ok(inverse_mass_matrix_body(c.res.val))]))

face_vandermonde(m) ==
    memoize_method(m, "face_vandermonde", LAMBDA m0 :
        Then(unit_face_nodes(m0), LAMBDA c :
            [memo |-> c.memo,
             res |-> Ok(generic_vandermonde(c.res.val,
                            face_basis_count(kind, order), numerics + 1))]))

\* la.inv(numpy.dot(face_vdm, face_vdm.T))
face_mass_matrix_body(face_vdm, seed) ==
    Bind(Dot(face_vdm, Transpose(face_vdm)), LAMBDA g : la_inv(g, seed))

face_mass_matrix(m) ==
    memoize_method(m, "face_mass_matrix", LAMBDA m0 :
        Then(face_vandermonde(m0), LAMBDA c :
            [memo |-> c.memo,
             res |-> Ok(face_mass_matrix_body(c.res.val, numerics))]))

multi_face_mass_matrix(m) ==
    memoize_method(m, "multi_face_mass_matrix", LAMBDA m0 :
        Then(face_mass_matrix(m0), LAMBDA c0 :
        Then(face_node_count(c0.memo), LAMBDA c1 :
            IF c0.res.val.rows # c1.res.val
            THEN [memo |-> c1.memo, res |-> Raise("AssertionError")]
            ELSE
        Then(node_count(c1.memo), LAMBDA c2 :
        Then(face_count(c2.memo), LAMBDA c3 :
        Then(face_indices(c3.memo), LAMBDA c4 :
            [memo |-> c4.memo,
             res |-> assemble_multi_face_mass_matrix(c0.res.val,
                        c2.res.val, c3.res.val, c4.res.val)]))))))

lifting_matrix(m) ==
    memoize_method(m, "lifting_matrix", LAMBDA m0 :
        Then(inverse_mass_matrix(m0), LAMBDA c1 :
            Then(multi_face_mass_matrix(c1.memo), LAMBDA c2 :
                [memo |-> c2.memo,
                 res |-> Ok(lifting_matrix_body(c1.res.val, c2.res.val))])))

\* hedge.polynomial.generic_multi_vandermonde: one matrix per direction
generic_multi_vandermonde(points, n_functions, d, seed) ==
    MapSeq(LAMBDA i : generic_vandermonde(points, n_functions, seed + 2 + i),
           PyRange(d))

grad_vandermonde(m) ==
    memoize_method(m, "grad_vandermonde", LAMBDA m0 :
        Then(unit_nodes(m0), LAMBDA c :
            [memo |-> c.memo,
             res |-> Ok(generic_multi_vandermonde(c.res.val,
                            basis_count(kind, order), dimensions(kind),
                            numerics))]))

\* faulty variant: the mass matrix is built on every call and never cached
mass_matrix_uncached(m) ==
    Then(inverse_mass_matrix(m), LAMBDA c :
        [memo |-> c.memo, res |-> Ok(la_inv(c.res.val, numerics))])

\* numpy.asarray(la.inv(self.inverse_mass_matrix()), order="C")
mass_matrix(m) ==
    memoize_method(m, "mass_matrix", LAMBDA m0 :
        Then(inverse_mass_matrix(m0), LAMBDA c :
            [memo |-> c.memo, res |-> Ok(la_inv(c.res.val, numerics))]))

\* hedge.tools.leftsolve(v, vdiff): a matrix with the rows of vdiff and the
\* rows of v as columns
leftsolve(v, vdiff, seed) ==
    Mat(vdiff.rows, v.rows,
        LAMBDA r, c : Sample(seed + At(vdiff, r, 0) + At(v, c, 0), r, c))

\* [leftsolve(v, vdiff) for vdiff in self.grad_vandermonde()]
differentiation_matrices(m) ==
    memoize_method(m, "differentiation_matrices", LAMBDA m0 :
        Then(vandermonde(m0), LAMBDA c1 :
            Then(grad_vandermonde(c1.memo), LAMBDA c2 :
                [memo |-> c2.memo,
                 res |-> Ok(MapSeq(LAMBDA vdiff :
                                leftsolve(c1.res.val, vdiff, numerics),
                            c2.res.val))])))

\* -------------------------------------- differentiation matrix permutation
\* transpose(tup, i, j): l[i], l[j] = l[j], l[i]
transpose(tup, i, j) ==
    IF i >= Len(tup) \/ j >= Len(tup) THEN Raise("IndexError")
    ELSE Ok([tup EXCEPT ![i + 1] = tup[j + 1], ![j + 1] = tup[i + 1]])

\* pytools.get_read_from_map_from_permutation(original, permuted): the list
\* rfm with permuted[i] == original[rfm[i]]
get_read_from_map_from_permutation(original, permuted) ==
    IF \E i \in 1..Len(permuted) : permuted[i] \notin Range(original)
    THEN Raise("KeyError")
    ELSE Ok(MapSeq(LAMBDA pi : node_tup_to_idx(original, pi), permuted))

\* p of find_diff_mat_permutation, from the node tuples alone
diff_mat_permutation(node_tups, target_idx) ==
    IF \E i \in 1..Len(node_tups) : transpose(node_tups[i], 0, target_idx).st # "ok"
    THEN Raise("IndexError")
    ELSE get_read_from_map_from_permutation(node_tups,
             MapSeq(LAMBDA nt : transpose(nt, 0, target_idx).val, node_tups))

\* assert la.norm(dmats[0][p][:, p] - dmats[target_idx]) < 1e-12: the entries
\* are values computed outside; the matrices that are compared have to exist
\* and to be of the size of p, and their entries are then taken to agree
diff_mats_agree(dmats, p, target_idx) ==
    IF target_idx >= Len(dmats) THEN Raise("IndexError")
    ELSE IF \/ dmats[1].rows # Len(p)
            \/ dmats[1].cols # Len(p)
            \/ dmats[target_idx + 1].rows # Len(p)
            \/ dmats[target_idx + 1].cols # Len(p)
         THEN Raise("ValueError")
         ELSE Ok(p)

find_diff_mat_permutation(m, target_idx) ==
    Then(node_tuples(m), LAMBDA c1 :
        IF diff_mat_permutation(c1.res.val, target_idx).st # "ok"
        THEN [memo |-> c1.memo,
              res |-> diff_mat_permutation(c1.res.val, target_idx)]
        ELSE Then(differentiation_matrices(c1.memo), LAMBDA c2 :
                [memo |-> c2.memo,
                 res |-> diff_mats_agree(c2.res.val,
                            diff_mat_permutation(c1.res.val, target_idx).val,
                            target_idx)]))

\* ----------------------------------------------------------- face matching
\* pytools.generate_unique_permutations(tuple(range(n)))
generate_unique_permutations(n) ==
    {p \in [1..n -> 0..(n - 1)] : \A i, j \in 1..n : p[i] = p[j] => i = j}

\* check_and_chop: the last unit coordinate of a node of face 0 is -1.  It is
\* for the first Gauss-Lobatto point and for a warped node whose last index
\* is 0; it is not for the single order-0 interval node 0.5.
check_and_chop(node) ==
    IF "point" \in DOMAIN node THEN Raise("AssertionError")
    ELSE IF "lgl" \in DOMAIN node
         THEN (IF node.lgl = 0 THEN Ok(node) ELSE Raise("AssertionError"))
         ELSE (IF node.bary[Len(node.bary)] = 0 THEN Ok(node)
               ELSE Raise("AssertionError"))

\* a chopped node of the first face, as its weights on the face's vertices
face_unit_node(node, d) ==
    IF "lgl" \in DOMAIN node THEN <<node.n - node.lgl>>
    ELSE SubSeq(node.bary, 1, d)

\* identify_affine_map(face_unit_vertices, permuted_face_unit_vertices)(node):
\* the affine map taking vertex i to vertex vert_perm[i] carries the weight
\* of vertex i over to vertex vert_perm[i]
identify_affine_map(vert_perm, node) ==
    [j \in 1..Len(node) |->
        node[CHOOSE i \in 1..Len(node) : vert_perm[i] = j - 1]]

\* hedge.tools.indexing.find_index_map_from_node_sets(node_set_a, node_set_b):
\* for every node of b the index of the node of a at its place
find_index_map_from_node_sets(node_set_a, node_set_b) ==
    IF \E i \in 1..Len(node_set_b) : node_set_b[i] \notin Range(node_set_a)
    THEN Raise("ValueError")
    ELSE Ok([i \in 1..Len(node_set_b) |->
                (CHOOSE j \in 1..Len(node_set_a) :
                    node_set_a[j] = node_set_b[i]) - 1])

\* faulty variant: the index map itself is returned
FaceIndexShuffle_call_returns_map(shuffle, indices) ==
    [j \in 1..Len(shuffle.idx_map) |-> shuffle.idx_map[j]]

\* FaceIndexShuffle.__call__: tuple(indices[i] for i in self.idx_map)
FaceIndexShuffle_call(shuffle, indices) ==
    [j \in 1..Len(shuffle.idx_map) |-> indices[shuffle.idx_map[j] + 1]]

\* get_face_index_shuffle_lookup_map_for_nodes: one FaceIndexShuffle per
\* permutation of range(dimensions), keyed by the permutation
get_face_index_shuffle_lookup_map_body(k, unodes, fi) ==
    IF \E i \in Range(fi[1]) : check_and_chop(unodes[i + 1]).st # "ok"
    THEN Raise("AssertionError")
    ELSE LET face_nodes ==
                 MapSeq(LAMBDA i : face_unit_node(unodes[i + 1], dimensions(k)),
                        fi[1])
             imap(vert_perm) ==
                 find_index_map_from_node_sets(face_nodes,
                     MapSeq(LAMBDA node : identify_affine_map(vert_perm, node),
                            face_nodes))
         IN  IF \E vert_perm \in generate_unique_permutations(dimensions(k)) :
                    imap(vert_perm).st # "ok"
             THEN Raise("ValueError")
             ELSE Ok([vert_perm \in generate_unique_permutations(dimensions(k))
                        |-> [vert_perm |-> vert_perm,
                             idx_map |-> imap(vert_perm).val]])

get_face_index_shuffle_lookup_map(m) ==
    memoize_method(m, "get_face_index_shuffle_lookup_map", LAMBDA m0 :
        Then(unit_nodes(m0), LAMBDA c1 :
            Then(face_indices(c1.memo), LAMBDA c2 :
                [memo |-> c2.memo,
                 res |-> get_face_index_shuffle_lookup_map_body(
                            kind, c1.res.val, c2.res.val)])))

\* dict((i_i, i) for i, i_i in enumerate(face_1_vertices)): the last position
\* of a vertex wins
idx_normalize_map(face_1, v) ==
    CHOOSE i \in 0..(Len(face_1) - 1) :
        /\ face_1[i + 1] = v
        /\ \A j \in 0..(Len(face_1) - 1) : face_1[j + 1] = v => j <= i

get_face_index_shuffle_backend(face_1, face_2, lookup_map) ==
    IF \E i \in 1..Len(face_2) : face_2[i] \notin Range(face_1)
    THEN Raise("FaceVertexMismatch")
    ELSE LET normalized_face_2_vertices ==
                [i \in 1..Len(face_2) |-> idx_normalize_map(face_1, face_2[i])]
         IN  IF \E key \in DOMAIN lookup_map : key = normalized_face_2_vertices
             THEN Ok(lookup_map[normalized_face_2_vertices])
             ELSE Raise("KeyError")

get_face_index_shuffle_to_match(m, face_1, face_2) ==
    Then(get_face_index_shuffle_lookup_map(m), LAMBDA c :
        [memo |-> c.memo,
         res |-> get_face_index_shuffle_backend(face_1, face_2, c.res.val)])

\* ------------------------------------------------- element state machine
Elements ==
    {e \in [kind : Kinds, order : 0..MaxOrder, fancy : BOOLEAN] :
        e.fancy => e.kind = "triangle"}

InitElem ==
    /\ \E e \in Elements :
        /\ kind = e.kind
        /\ order = e.order
        /\ fancy_node_ordering = e.fancy
    /\ numerics \in 0..MaxSeed
    /\ memo = [key \in MemoKeys |-> Unset]
    /\ warp = <<>>
    /\ last = [op |-> "__init__", res |-> Ok(<<>>)]

\* the matrices are built for elements of at most MaxMatrixNodes nodes
SmallEnough == node_count_body(kind, order) <= MaxMatrixNodes

Returns(op, call) ==
    /\ \E c \in {call} :
        /\ memo' = c.memo
        /\ last' = [op |-> op, res |-> c.res]
    /\ UNCHANGED <<kind, order, fancy_node_ordering, numerics, warp,
                   shuffle_vars, kernel_vars>>

CallNodeCount == Returns("node_count", node_count(memo))
CallNodeTuples == Returns("node_tuples", node_tuples(memo))
CallFaceIndices == Returns("face_indices", face_indices(memo))
CallFaceCount == Returns("face_count", face_count(memo))
CallFaceNodeCount == Returns("face_node_count", face_node_count(memo))
CallUnitNodes == Returns("unit_nodes", unit_nodes(memo))
CallUnitFaceNodes == Returns("unit_face_nodes", unit_face_nodes(memo))
CallVandermonde == SmallEnough /\ Returns("vandermonde", vandermonde(memo))
CallInverseMassMatrix == SmallEnough /\ Returns("inverse_mass_matrix", inverse_mass_matrix(memo))
CallFaceVandermonde == SmallEnough /\ Returns("face_vandermonde", face_vandermonde(memo))
CallFaceMassMatrix == SmallEnough /\ Returns("face_mass_matrix", face_mass_matrix(memo))
CallMultiFaceMassMatrix ==
    SmallEnough /\ Returns("multi_face_mass_matrix", multi_face_mass_matrix(memo))
CallLiftingMatrix == SmallEnough /\ Returns("lifting_matrix", lifting_matrix(memo))
CallGradVandermonde ==
    SmallEnough /\ Returns("grad_vandermonde", grad_vandermonde(memo))
CallMassMatrix == SmallEnough /\ Returns("mass_matrix", mass_matrix(memo))
CallDifferentiationMatrices ==
    SmallEnough /\ Returns("differentiation_matrices", differentiation_matrices(memo))

CallVertexIndices == Returns("vertex_indices", vertex_indices(memo))

NextElem ==
    \/ CallNodeCount
    \/ CallNodeTuples
    \/ CallFaceIndices
    \/ CallFaceCount
    \/ CallFaceNodeCount
    \/ CallUnitNodes
    \/ CallUnitFaceNodes
    \/ CallVandermonde
    \/ CallInverseMassMatrix
    \/ CallFaceVandermonde
    \/ CallFaceMassMatrix
    \/ CallMultiFaceMassMatrix
    \/ CallLiftingMatrix

ShuffleIdle ==
    /\ face_1_vertices = <<>>
    /\ face_2_vertices = <<>>

\* no plan has been asked for
PlanIdle ==
    /\ devdata = <<>>
    /\ given = <<>>
    /\ planning = Unset
    /\ kernel = <<>>

\* no kernel object has been made
HostIdle ==
    /\ element_groups = <<>>
    /\ memoize_dic_get_kernel = <<>>
    /\ compilations = <<>>
    /\ launches = <<>>
    /\ discr = <<>>
    /\ benchmarks = 0
    /\ launch = <<>>
    /\ PlanIdle

\* no kernel has been generated or launched
KernelsIdle ==
    /\ lplan = <<>> /\ mod = <<>> /\ MB_CHUNK = 0 /\ pc = <<>>
    /\ chunk_start_el = 0 /\ chunk_stop_el = 0 /\ chunk_el_count = 0
    /\ dof_buffer = <<>> /\ flux = <<>>
    /\ plan = <<>> /\ mod_alt = <<>> /\ pc_alt = <<>>
    /\ smem_fluxes_on_faces = <<>> /\ flux_alt = <<>>
    /\ HostIdle

Init == InitElem /\ ShuffleIdle /\ KernelsIdle

Next == NextElem

Spec == Init /\ [][Next]_vars

\* the numbering of vertices and faces of one element
NextNumbering == CallNodeTuples \/ CallVertexIndices \/ CallFaceIndices

SpecNumbering == Init /\ [][NextNumbering]_vars

\* ------------------------------------------------------------ construction
\* the geometries a mesh can name; the last has no entry in GEOMETRY_TO_LDIS
Geometries ==
    {"Interval", "Triangle", "CurvedTriangle", "Tetrahedron",
     "CurvedTetrahedron", "Quadrilateral"}

\* GEOMETRY_TO_LDIS[geometry]
GEOMETRY_TO_LDIS(geometry) ==
    CASE geometry = "Interval" -> Ok("interval")
      [] geometry \in {"Triangle", "CurvedTriangle"} -> Ok("triangle")
      [] geometry \in {"Tetrahedron", "CurvedTetrahedron"} -> Ok("tetrahedron")
      [] OTHER -> Raise("KeyError")

\* __init__(self, order[, fancy_node_ordering]): stores its arguments
construct(k, o, fancy) == Ok(<<>>)

\* GEOMETRY_TO_LDIS[geometry](order) with any integer order
InitConstruct ==
    /\ \E geometry \in Geometries,
          o \in (0 - MaxNegativeOrder)..MaxOrder,
          fancy \in BOOLEAN :
        /\ order = o
        /\ IF GEOMETRY_TO_LDIS(geometry).st = "ok"
           THEN /\ kind = GEOMETRY_TO_LDIS(geometry).val
                /\ fancy_node_ordering = (fancy /\ kind = "triangle")
                /\ last = [op |-> "__init__", res |-> construct(kind, o, fancy)]
           ELSE /\ kind = "none"
                /\ fancy_node_ordering = FALSE
                /\ last = [op |-> "GEOMETRY_TO_LDIS", res |-> Raise("KeyError")]
    /\ numerics = 0
    /\ memo = [key \in MemoKeys |-> Unset]
    /\ warp = <<>>
    /\ ShuffleIdle
    /\ KernelsIdle

\* the numbering accessors, on an element that was constructed
NextConstruct ==
    /\ kind \in Kinds
    /\ \/ CallNodeCount
       \/ CallNodeTuples
       \/ CallFaceIndices

SpecConstruct == InitConstruct /\ [][NextConstruct]_vars

\* ------------------------------------------------------- warp constant alpha
\* a rational number; the tables are written in units of 1/100000
Rat(num, den) == [num |-> num, den |-> den]

\* alpha_opt of TriangleDiscretization.equilateral_nodes
alpha_opt_triangle ==
    <<0, 0, 141520, 10010, 27510, 98000, 109990, 128320, 136480, 147730,
      149590, 157430, 157700, 162230, 162580>>

\* alpha_opt of TetrahedronDiscretization.equilateral_nodes
alpha_opt_tetrahedron ==
    <<0, 0, 0, 10020, 113320, 156080, 134130, 125770, 116030, 110153,
      60800, 45230, 88560, 87170, 96550>>

\* Python's lst[i]: a negative index counts from the end
PyIndex(lst, i) ==
    IF 0 <= i /\ i < Len(lst) THEN Ok(lst[i + 1])
    ELSE IF 0 - Len(lst) <= i /\ i < 0 THEN Ok(lst[i + Len(lst) + 1])
    ELSE Raise("IndexError")

\* try: alpha = alpha_opt[self.order-1]  except IndexError: alpha = 5/3
triangle_alpha(o) ==
    IF PyIndex(alpha_opt_triangle, o - 1).st = "ok"
    THEN Ok(Rat(PyIndex(alpha_opt_triangle, o - 1).val, 100000))
    ELSE Ok(Rat(5, 3))

\* if self.order-1 < len(alpha_opt): alpha = alpha_opt[self.order-1]
\* else: alpha = 1
tetrahedron_alpha(o) ==
    IF o - 1 < Len(alpha_opt_tetrahedron)
    THEN IF PyIndex(alpha_opt_tetrahedron, o - 1).st = "ok"
         THEN Ok(Rat(PyIndex(alpha_opt_tetrahedron, o - 1).val, 100000))
         ELSE Raise("IndexError")
    ELSE Ok(Rat(1, 1))

\* the alpha equilateral_nodes sets for an element
equilateral_nodes_alpha(k, o) ==
    IF k = "triangle" THEN triangle_alpha(o) ELSE tetrahedron_alpha(o)

InitAlpha ==
    /\ kind \in {"triangle", "tetrahedron"}
    /\ order \in (0 - MaxNegativeOrder)..MaxAlphaOrder
    /\ fancy_node_ordering = FALSE
    /\ numerics = 0
    /\ memo = [key \in MemoKeys |-> Unset]
    /\ warp = <<>>
    /\ last = [op |-> "__init__", res |-> Ok(<<>>)]
    /\ ShuffleIdle
    /\ KernelsIdle

\* equilateral_nodes() up to the choice of alpha
SetAlpha ==
    /\ last.op = "__init__"
    /\ last' = [op |-> "alpha", res |-> equilateral_nodes_alpha(kind, order)]
    /\ UNCHANGED <<kind, order, fancy_node_ordering, numerics, memo, warp,
                   shuffle_vars, kernel_vars>>

NextAlpha == SetAlpha

SpecAlpha == InitAlpha /\ [][NextAlpha]_vars

\* ------------------------------------------------- tetrahedron face blend
\* the vertex numbers of the four faces of the tetrahedron:
\* self.geometry.face_vertices(all_vertex_indices)
face_vertex_indices == << <<0, 1, 2>>, <<0, 1, 3>>, <<0, 2, 3>>, <<1, 2, 3>> >>

\* (set(all_vertex_indices) - set(fvi)).__iter__().next()
opp_vertex_index(fvi) == CHOOSE v \in 0..3 : v \notin Range(fvi)

\* list(self.equidistant_barycentric_nodes()) of the tetrahedron of order o
bary_points(o) ==
    IF node_tuples_body("tetrahedron", o, FALSE).st = "ok"
    THEN equidistant_barycentric_nodes(o,
             node_tuples_body("tetrahedron", o, FALSE).val)
    ELSE node_tuples_body("tetrahedron", o, FALSE)

\* denom = bp[i] + 0.5*bp[opp_vertex_index], the coordinates being the
\* numerators in bp over the common denominator o
denom(bp, i, opp, o) == Rat(2 * bp[i + 1] + bp[opp + 1], 2 * o)

\* abs(denom) > 1e-12, as den/10^6 < |num|*10^6 in whole numbers
abs_exceeds_1e_12(r) ==
    (r.den \div 1000000) < (IF r.num < 0 THEN 0 - r.num ELSE r.num) * 1000000

\* blend = reduce(mul, face_bp) * (1+alpha*bp[opp_vertex_index])**2: the
\* product as computed, before any division
blend_product == [half |-> FALSE, divided_by |-> <<>>]

\* blend = 0.5
blend_half == [half |-> TRUE, divided_by |-> <<>>]

\* faulty variant: the division is made whatever the denominator
blend_step_unclamped(w, o) ==
    LET fvi == face_vertex_indices[w.face]
        d == denom(w.bp, fvi[w.i], opp_vertex_index(fvi), o)
    IN [w EXCEPT !.blend.divided_by = Append(@, d),
                 !.divisions = Append(@, d),
                 !.i = @ + 1,
                 !.done = (w.i = Len(fvi))]

\* one pass of `for i in fvi:`: divide by the denominator, or set the blend
\* to 0.5 and break; `done` once the loop is left
blend_step(w, o) ==
    LET fvi == face_vertex_indices[w.face]
        d == denom(w.bp, fvi[w.i], opp_vertex_index(fvi), o)
    IN IF abs_exceeds_1e_12(d)
       THEN [w EXCEPT !.blend.divided_by = Append(@, d),
                      !.divisions = Append(@, d),
                      !.i = @ + 1,
                      !.done = (w.i = Len(fvi))]
       ELSE [w EXCEPT !.blend = blend_half, !.done = TRUE]

InitBlend ==
    /\ kind = "tetrahedron"
    /\ order \in 0..MaxOrder
    /\ fancy_node_ordering = FALSE
    /\ numerics = 0
    /\ memo = [key \in MemoKeys |-> Unset]
    /\ warp = <<>>
    /\ last = [op |-> "__init__", res |-> Ok(<<>>)]
    /\ ShuffleIdle
    /\ KernelsIdle

\* `for fvi ...: for bp, ep in zip(bary_points, equi_points):` reaches the
\* pair of face f and the n-th node, and sets up its blend
EnterBlend ==
    /\ warp = <<>>
    /\ bary_points(order).st = "ok"
    /\ \E f \in 1..Len(face_vertex_indices),
          n \in 1..Len(bary_points(order).val) :
        warp' = [face |-> f, bp |-> bary_points(order).val[n], i |-> 1,
                 blend |-> blend_product, divisions |-> <<>>, done |-> FALSE]
    /\ UNCHANGED <<kind, order, fancy_node_ordering, numerics, memo, last,
                   shuffle_vars, kernel_vars>>

BlendStep ==
    /\ warp # <<>>
    /\ ~warp.done
    /\ warp' = blend_step(warp, order)
    /\ UNCHANGED <<kind, order, fancy_node_ordering, numerics, memo, last,
                   shuffle_vars, kernel_vars>>

NextBlend == EnterBlend \/ BlendStep

SpecBlend == InitBlend /\ [][NextBlend]_vars

\* ------------------------------------------------------ coordinate maps
\* a real number num / (den * sqrt(rad)): the fractions and the square roots
\* of 3 and 6 that the coordinate maps are written with, kept exactly
Real(num, den, rad) == [num |-> num, den |-> den, rad |-> rad]

Frac(num, den) == Real(num, den, 1)

\* a sum or product that leaves the numbers above
Irrational == Real(0, 0, 0)

RealMul(a, b) ==
    IF a = Irrational \/ b = Irrational THEN Irrational
    ELSE IF a.num = 0 \/ b.num = 0 THEN Frac(0, 1)
    ELSE IF a.rad = b.rad
         THEN Frac(a.num * b.num, a.den * b.den * a.rad)
    ELSE IF a.rad = 1 THEN Real(a.num * b.num, a.den * b.den, b.rad)
    ELSE IF b.rad = 1 THEN Real(a.num * b.num, a.den * b.den, a.rad)
    ELSE Irrational

RealAdd(a, b) ==
    IF a = Irrational \/ b = Irrational THEN Irrational
    ELSE IF a.num = 0 THEN b
    ELSE IF b.num = 0 THEN a
    ELSE IF a.rad = b.rad
         THEN Real(a.num * b.den + b.num * a.den, a.den * b.den, a.rad)
    ELSE Irrational

RealNeg(a) == RealMul(Frac(0 - 1, 1), a)

\* 1 / sqrt(3.0), 1 / sqrt(6.0), and sqrt(6) = 6 / sqrt(6)
InvSqrt3 == Real(1, 1, 3)
InvSqrt6 == Real(1, 1, 6)
Sqrt6 == Real(6, 1, 6)

\* numpy.dot of two vectors of one length
RECURSIVE RealDot(_, _)
RealDot(row, x) ==
    IF row = <<>> THEN Frac(0, 1)
    ELSE RealAdd(RealMul(Head(row), Head(x)), RealDot(Tail(row), Tail(x)))

\* AffineMap(matrix, vector)(x) = numpy.dot(matrix, x) + vector; operands
\* whose shapes do not fit raise
AffineMap(matrix, vector, x) ==
    IF \E r \in 1..Len(matrix) : Len(matrix[r]) # Len(x)
    THEN Raise("ValueError")
    ELSE IF Len(vector) # Len(matrix) /\ Len(vector) # 1 /\ Len(matrix) # 1
    THEN Raise("ValueError")
    ELSE Ok([r \in 1..(IF Len(matrix) = 1 THEN Len(vector) ELSE Len(matrix)) |->
                RealAdd(RealDot(matrix[IF Len(matrix) = 1 THEN 1 ELSE r], x),
                        vector[IF Len(vector) = 1 THEN 1 ELSE r])])

\* barycentric_to_equilateral of the three element classes
barycentric_to_equilateral(k, lambda) ==
    CASE k = "interval" ->
            << RealAdd(RealMul(Frac(2, 1), lambda[1]), Frac(0 - 1, 1)) >>
      [] k = "triangle" ->
            << RealAdd(RealNeg(lambda[1]), lambda[2]),
               RealMul(RealAdd(RealAdd(RealNeg(lambda[1]), RealNeg(lambda[2])),
                               RealMul(Frac(2, 1), lambda[3])),
                       InvSqrt3) >>
      [] k = "tetrahedron" ->
            << RealAdd(RealNeg(lambda[1]), lambda[2]),
               RealMul(RealAdd(RealAdd(RealNeg(lambda[1]), RealNeg(lambda[2])),
                               RealMul(Frac(2, 1), lambda[3])),
                       InvSqrt3),
               RealMul(RealAdd(RealAdd(RealAdd(RealNeg(lambda[1]),
                                               RealNeg(lambda[2])),
                                       RealNeg(lambda[3])),
                               RealMul(Frac(3, 1), lambda[4])),
                       InvSqrt6) >>

\* equilateral_to_unit = AffineMap(...) of the three element classes
equilateral_to_unit(k, x) ==
    CASE k = "interval" ->
            AffineMap(<< <<Frac(1, 1)>> >>, <<Frac(0, 1)>>, x)
      [] k = "triangle" ->
            AffineMap(
                << <<Frac(1, 1), RealNeg(InvSqrt3)>>,
                   <<Frac(0, 1), RealMul(Frac(2, 1), InvSqrt3)>> >>,
                <<Frac(0 - 1, 3), Frac(0 - 1, 3)>>, x)
      [] k = "tetrahedron" ->
            AffineMap(
                << <<Frac(1, 1), RealNeg(InvSqrt3), RealNeg(InvSqrt6)>>,
                   <<Frac(0, 1), RealMul(Frac(2, 1), InvSqrt3),
                     RealNeg(InvSqrt6)>>,
                   <<Frac(0, 1), Frac(0, 1), RealMul(Sqrt6, Frac(1, 2))>> >>,
                <<Frac(0 - 1, 2), Frac(0 - 1, 2), Frac(0 - 1, 2)>>, x)

\* unit_to_barycentric = AffineMap(...) of the three element classes
unit_to_barycentric(k, x) ==
    CASE k = "interval" ->
            AffineMap(<< <<Frac(1, 2)>>, <<Frac(0 - 1, 2)>> >>,
                      <<Frac(1, 2), Frac(1, 2)>>, x)
      [] k = "triangle" ->
            AffineMap(
                << <<Frac(1, 2), Frac(0, 1)>>,
                   <<Frac(0, 1), Frac(1, 2)>>,
                   <<Frac(0 - 1, 2), Frac(0 - 1, 2)>> >>,
                <<Frac(1, 2), Frac(1, 2), Frac(0, 1)>>, x)
      [] k = "tetrahedron" ->
            AffineMap(
                << <<Frac(1, 2), Frac(0, 1), Frac(0, 1)>>,
                   <<Frac(0, 1), Frac(1, 2), Frac(0, 1)>>,
                   <<Frac(0, 1), Frac(0, 1), Frac(1, 2)>>,
                   <<Frac(0 - 1, 2), Frac(0 - 1, 2), Frac(0 - 1, 2)>> >>,
                <<Frac(1, 2), Frac(1, 2), Frac(0 - 1, 2)>>, x)

\* the barycentric coordinates of the equidistant nodes of the element, the
\* vertices among them: (1 - sum(divided),) + divided
BarycentricPoints(k, o) ==
    IF o = 0 \/ node_tuples_body(k, o, FALSE).st # "ok" THEN {}
    ELSE {[c \in 1..Len(bp) |-> Frac(bp[c], o)] :
            bp \in Range(equidistant_barycentric_nodes(o,
                             node_tuples_body(k, o, FALSE).val).val)}

InitMaps ==
    /\ kind \in Kinds
    /\ order \in 0..MaxOrder
    /\ fancy_node_ordering = FALSE
    /\ numerics = 0
    /\ memo = [key \in MemoKeys |-> Unset]
    /\ warp = <<>>
    /\ last = [op |-> "__init__", res |-> Ok(<<>>)]
    /\ ShuffleIdle
    /\ KernelsIdle

MapsFrame ==
    UNCHANGED <<kind, order, fancy_node_ordering, numerics, memo, last,
                shuffle_vars, kernel_vars>>

\* self.barycentric_to_equilateral(bary)
ToEquilateral ==
    /\ warp = <<>>
    /\ \E bary \in BarycentricPoints(kind, order) :
        warp' = [stage |-> "equilateral", bary |-> bary,
                 point |-> Ok(barycentric_to_equilateral(kind, bary))]
    /\ MapsFrame

\* self.equilateral_to_unit(node)
ToUnit ==
    /\ warp # <<>>
    /\ warp.stage = "equilateral"
    /\ warp' = [warp EXCEPT !.stage = "unit",
                            !.point = equilateral_to_unit(kind, warp.point.val)]
    /\ MapsFrame

\* self.unit_to_barycentric(node)
ToBarycentric ==
    /\ warp # <<>>
    /\ warp.stage = "unit"
    /\ warp.point.st = "ok"
    /\ warp' = [warp EXCEPT !.stage = "barycentric",
                            !.point = unit_to_barycentric(kind, warp.point.val)]
    /\ MapsFrame

NextMaps == ToEquilateral \/ ToUnit \/ ToBarycentric

SpecMaps == InitMaps /\ [][NextMaps]_vars

\* ------------------------------------------------------ time step scaling
Abs(x) == IF x < 0 THEN 0 - x ELSE x

\* max(abs(fj) for fj in el.face_jacobians)
max_abs(fjs) ==
    CHOOSE v \in {Abs(fjs[i]) : i \in 1..Len(fjs)} :
        \A i \in 1..Len(fjs) : Abs(fjs[i]) <= v

\* faulty variant: only the order-1 tetrahedron is halved
tetrahedron_dt_geometric_factor_order_1_only(o, el) ==
    LET result == Rat(Abs(el.jacobian), max_abs(el.face_jacobians))
    IN  IF result.den = 0 THEN Raise("ZeroDivisionError")
        ELSE IF o \in {1} THEN Ok(Rat(result.num, result.den * 2))
        ELSE Ok(result)

\* TetrahedronDiscretization.dt_geometric_factor(vertices, el)
tetrahedron_dt_geometric_factor(o, el) ==
    LET result == Rat(Abs(el.jacobian), max_abs(el.face_jacobians))
    IN  IF result.den = 0 THEN Raise("ZeroDivisionError")
        ELSE IF o \in {1, 2} THEN Ok(Rat(result.num, result.den * 2))
        ELSE Ok(result)

\* the mesh elements handed in: a jacobian and four face jacobians, none zero
MeshElements ==
    [jacobian : ((0 - MaxJacobian)..MaxJacobian) \ {0},
     face_jacobians : [1..4 -> ((0 - MaxJacobian)..MaxJacobian) \ {0}]]

InitDt ==
    /\ kind = "tetrahedron"
    /\ order \in 0..MaxOrder
    /\ fancy_node_ordering = FALSE
    /\ numerics = 0
    /\ memo = [key \in MemoKeys |-> Unset]
    /\ warp = <<>>
    /\ last = [op |-> "__init__", res |-> Ok(<<>>)]
    /\ ShuffleIdle
    /\ KernelsIdle

\* the factor is asked for once per element of the mesh; one such call is followed
CallDtGeometricFactor ==
    /\ last.op = "__init__"
    /\ \E el \in MeshElements :
        last' = [op |-> "dt_geometric_factor", el |-> el,
                 res |-> tetrahedron_dt_geometric_factor(order, el)]
    /\ UNCHANGED <<kind, order, fancy_node_ordering, numerics, memo, warp,
                   shuffle_vars, kernel_vars>>

NextDt == CallDtGeometricFactor

SpecDt == InitDt /\ [][NextDt]_vars

\* --------------------------------------------- matrix accessors on their own
\* an element whose matrices are built, and calls of the matrix accessors only
InitMatrices == Init /\ SmallEnough

NextMatrices ==
    \/ CallVandermonde
    \/ CallGradVandermonde
    \/ CallInverseMassMatrix
    \/ CallMassMatrix
    \/ CallDifferentiationMatrices
    \/ CallFaceVandermonde
    \/ CallFaceMassMatrix
    \/ CallMultiFaceMassMatrix
    \/ CallLiftingMatrix

SpecMatrices == InitMatrices /\ [][NextMatrices]_vars

\* ---------------------------------- the permutation of the matrices asked for
InitDiffPerm == InitMatrices /\ kind # "interval"

\* find_diff_mat_permutation(target_idx) for an axis of the element
CallFindDiffMatPermutation ==
    /\ SmallEnough
    /\ \E target_idx \in 0..(dimensions(kind) - 1) :
        \E c \in {find_diff_mat_permutation(memo, target_idx)} :
            /\ memo' = c.memo
            /\ last' = [op |-> "find_diff_mat_permutation", res |-> c.res,
                        target_idx |-> target_idx]
    /\ UNCHANGED <<kind, order, fancy_node_ordering, numerics, warp,
                   shuffle_vars, kernel_vars>>

NextDiffPerm ==
    \/ CallFindDiffMatPermutation
    \/ CallNodeTuples
    \/ CallUnitNodes
    \/ CallVandermonde
    \/ CallGradVandermonde
    \/ CallDifferentiationMatrices

SpecDiffPerm == InitDiffPerm /\ [][NextDiffPerm]_vars

\* ---------------------------------------------- face matching state machine
RECURSIVE TuplesUpTo(_, _)
TuplesUpTo(S, n) ==
    IF n = 0 THEN {<<>>}
    ELSE LET shorter == TuplesUpTo(S, n - 1)
         IN  shorter \cup {Append(t, v) : t \in shorter, v \in S}

\* vertex tuples a caller passes for the second face
VertexTuples == TuplesUpTo(0..MaxVertexId, MaxFaceVertices) \ {<<>>}

\* the first face is a face of this element in a mesh: dimensions distinct
\* vertex numbers
OwnFaceTuples ==
    {t \in VertexTuples :
        /\ Len(t) = dimensions(kind)
        /\ \A i, j \in 1..Len(t) : t[i] = t[j] => i = j}

InitShuffle ==
    /\ InitElem
    /\ order <= 1
    /\ ShuffleIdle
    /\ KernelsIdle

CallGetFaceIndexShuffleToMatch ==
    /\ \E face_1 \in OwnFaceTuples, face_2 \in VertexTuples :
        \E c \in {get_face_index_shuffle_to_match(memo, face_1, face_2)} :
            /\ memo' = c.memo
            /\ last' = [op |-> "get_face_index_shuffle_to_match", res |-> c.res]
            /\ face_1_vertices' = face_1
            /\ face_2_vertices' = face_2
    /\ UNCHANGED <<kind, order, fancy_node_ordering, numerics, warp,
                   kernel_vars>>

NextShuffle == CallGetFaceIndexShuffleToMatch

SpecShuffle == InitShuffle /\ [][NextShuffle]_vars

\* ------------------------------------------ face shuffles applied in turn
InitFaceShuffle == InitElem /\ ShuffleIdle /\ KernelsIdle

CallGetFaceIndexShuffleLookupMap ==
    /\ warp = <<>>
    /\ Returns("get_face_index_shuffle_lookup_map",
               get_face_index_shuffle_lookup_map(memo))

\* the lookup map of the element, once it has been returned
LookupMap == last.res.val

\* the shuffle of a vertex permutation is applied to the dof indices of a face
ApplyShuffle ==
    /\ warp = <<>>
    /\ last.op = "get_face_index_shuffle_lookup_map"
    /\ last.res.st = "ok"
    /\ face_indices(memo).res.st = "ok"
    /\ \E vert_perm \in DOMAIN LookupMap,
          f \in 1..Len(face_indices(memo).res.val) :
        warp' = [vert_perm |-> vert_perm,
                 indices |-> face_indices(memo).res.val[f],
                 shuffled |-> FaceIndexShuffle_call(LookupMap[vert_perm],
                                  face_indices(memo).res.val[f]),
                 back |-> <<>>,
                 stage |-> "shuffled"]
    /\ memo' = face_indices(memo).memo
    /\ UNCHANGED <<kind, order, fancy_node_ordering, numerics, last,
                   shuffle_vars, kernel_vars>>

\* the permutation that undoes vert_perm
inverse_permutation(vert_perm) ==
    [j \in 1..Len(vert_perm) |->
        (CHOOSE i \in 1..Len(vert_perm) : vert_perm[i] = j - 1) - 1]

\* the shuffle of the inverse permutation is applied to what came out
ApplyInverseShuffle ==
    /\ warp # <<>>
    /\ warp.stage = "shuffled"
    /\ warp' = [warp EXCEPT
                  !.back = FaceIndexShuffle_call(
                               LookupMap[inverse_permutation(warp.vert_perm)],
                               warp.shuffled),
                  !.stage = "back"]
    /\ UNCHANGED <<kind, order, fancy_node_ordering, numerics, memo, last,
                   shuffle_vars, kernel_vars>>

NextFaceShuffle ==
    \/ CallGetFaceIndexShuffleLookupMap
    \/ ApplyShuffle
    \/ ApplyInverseShuffle

SpecFaceShuffle == InitFaceShuffle /\ [][NextFaceShuffle]_vars

\* ---------------------------------------------------------- kernel helpers
UInt16 == 65536
UInt8 == 256

\* contents of shared memory and of a register before the first write
Undefined == 0 - 1

Min(a, b) == IF a < b THEN a ELSE b

\* pytools.int_ceiling(a / b)
int_ceiling(a, b) == (a + b - 1) \div b

\* threadIdx of a thread <<threadIdx.x, threadIdx.y>>
threadIdx_x(t) == t[1]
threadIdx_y(t) == t[2]

\* the largest dofs_per_el() and face_dofs_per_el() of a plan
MaxDofsPerEl == MaxChunkSize + 1
MaxFaceDofs == MaxChunkSize + 1

\* ----------------------------------------------------------- chunked kernel
\* the argument is_lift and the plan values a kernel is generated from; the
\* block that is followed has at most MaxThreads threads
ChunkedPlans ==
    {pl \in [chunk_size : 1..MaxChunkSize,
             dofs_per_el : 1..MaxDofsPerEl,
             elements : 1..MaxElements,
             aligned_floats : 1..(MaxDofsPerEl * MaxElements + MaxPadding),
             face_dofs_per_el : 1..MaxFaceDofs,
             p : 1..MaxPar,
             s : 1..MaxSeq,
             is_lift : BOOLEAN] :
        /\ pl.aligned_floats >= pl.dofs_per_el * pl.elements
        /\ pl.aligned_floats <= pl.dofs_per_el * pl.elements + MaxPadding
        /\ pl.chunk_size * pl.p <= MaxThreads}

\* lplan.chunks_per_microblock(): the chunks that cover the aligned microblock
chunks_per_microblock(pl) == int_ceiling(pl.aligned_floats, pl.chunk_size)

\* lplan.max_elements_touched_by_chunk()
max_elements_touched_by_chunk(pl) ==
    IF pl.dofs_per_el > pl.chunk_size THEN 2
    ELSE int_ceiling(pl.chunk_size, pl.dofs_per_el) + 1

\* uint16 chunk_start_el_lookup[MB_CHUNK_COUNT]
chunk_start_el_lookup(pl) ==
    MapSeq(LAMBDA chk : ((chk * pl.chunk_size) \div pl.dofs_per_el) % UInt16,
           PyRange(chunks_per_microblock(pl)))

\* faulty variant: the stop element is not clipped to the elements of the microblock
chunk_stop_el_lookup_unclipped(pl) ==
    MapSeq(LAMBDA chk :
                ((chk * pl.chunk_size + pl.chunk_size - 1) \div pl.dofs_per_el + 1)
                    % UInt16,
           PyRange(chunks_per_microblock(pl)))

\* uint16 chunk_stop_el_lookup[MB_CHUNK_COUNT]
chunk_stop_el_lookup(pl) ==
    MapSeq(LAMBDA chk :
                Min(pl.elements,
                    (chk * pl.chunk_size + pl.chunk_size - 1) \div pl.dofs_per_el + 1)
                    % UInt16,
           PyRange(chunks_per_microblock(pl)))

\* the threads of a block: threadIdx.x = CHUNK_DOF, threadIdx.y = PAR_MB_NR
ChunkedThreads(pl) == (0..(pl.chunk_size - 1)) \X (0..(pl.p - 1))

THREAD_NUM(pl, t) == threadIdx_x(t) + threadIdx_y(t) * pl.chunk_size

MB_DOF(pl, chunk, t) == chunk * pl.chunk_size + threadIdx_x(t)

\* a value written to flux: the matrix the accumulated result was formed
\* with, and what the result was multiplied with: "1", or the entry of
\* inverse_jacobians_tex at an element index
Written(mat, multiplier, el) ==
    [result |-> mat,
     times |-> multiplier,
     el |-> IF multiplier = "1" THEN Undefined ELSE el]

\* one generated statement: op, the load_chunk_start of its batch, its dof
Instr(op, start, dof) == [op |-> op, start |-> start, dof |-> dof]

\* one batch: the fetch into dof_buffer[PAR_MB_NR][CHUNK_DOF], __syncthreads(),
\* and one multiply per dof of dofs[load_chunk_start:load_chunk_start+chunk_size]
batch_code(pl, load_chunk_start) ==
    <<Instr("fetch", load_chunk_start, 0), Instr("sync", load_chunk_start, 0)>>
    \o MapSeq(LAMBDA k : Instr("mul", load_chunk_start, load_chunk_start + k),
              PyRange(Min(pl.chunk_size, pl.face_dofs_per_el - load_chunk_start)))

\* get_batched_fetch_mat_mul_code: the batches for
\* load_chunk_start in range(0, face_dofs_per_el, chunk_size)
get_batched_fetch_mat_mul_code(pl) ==
    Concat(MapSeq(LAMBDA b : batch_code(pl, b * pl.chunk_size),
                  PyRange(int_ceiling(pl.face_dofs_per_el, pl.chunk_size))))

\* get_direct_tex_mat_mul_code: texture fetches only, no shared staging
get_direct_tex_mat_mul_code(pl) == <<Instr("direct", 0, 0)>>

\* faulty variant: two-element chunks take the batched path as well
get_mat_mul_code_batched_up_to_two(pl, el_fetch_count) ==
    IF el_fetch_count <= 2
    THEN [path |-> "batched", code |-> get_batched_fetch_mat_mul_code(pl)]
    ELSE [path |-> "direct", code |-> get_direct_tex_mat_mul_code(pl)]

get_mat_mul_code(pl, el_fetch_count) ==
    IF el_fetch_count = 1
    THEN [path |-> "batched", code |-> get_batched_fetch_mat_mul_code(pl)]
    ELSE [path |-> "direct", code |-> get_direct_tex_mat_mul_code(pl)]

\* the body of the seq_mb_number loop of one branch: the multiply code and the
\* guarded store
loop_body(pl, fetch_count) ==
    get_mat_mul_code(pl, fetch_count).code \o <<Instr("store", 0, 0)>>

\* the branches make_multiple_ifs chains
fetch_counts(pl) == 1..max_elements_touched_by_chunk(pl)

\* gpu_liftmat(is_lift): the matrix whose chunks go to the device and its
\* column count, made odd
gpu_liftmat(pl) ==
    [mat |-> IF pl.is_lift THEN "lifting_matrix" ELSE "multi_face_mass_matrix",
     matrix_columns |-> IF pl.face_dofs_per_el % 2 = 0
                        THEN pl.face_dofs_per_el + 1
                        ELSE pl.face_dofs_per_el]

\* faulty variant: the result is scaled by the inverse Jacobian whatever is_lift is
inv_jac_multiplier_always(pl) == "inverse_jacobians_tex"

\* inv_jac_multiplier: the texture the result is multiplied with, or "1"
inv_jac_multiplier(pl) == IF pl.is_lift THEN "inverse_jacobians_tex" ELSE "1"

\* the textures the module declares
textures(pl) ==
    {"fluxes_on_faces_tex"}
        \cup (IF pl.is_lift THEN {"inverse_jacobians_tex"} ELSE {})

\* the texture references get_kernel returns; inverse_jacobians_tex is bound
\* to its data before it is appended
texrefs(pl) ==
    {"fluxes_on_faces_tex"}
        \cup (IF pl.is_lift THEN {"inverse_jacobians_tex"} ELSE {})

\* get_kernel: the module generated for a plan: its textures, the matrix on
\* the device, the two constant tables, the multiplier of the store and, per
\* branch of the dispatch, the path it takes and the loop body
get_kernel(pl) ==
    [textures |-> textures(pl),
     texrefs |-> texrefs(pl),
     liftmat_data |-> gpu_liftmat(pl),
     inv_jac_multiplier |-> inv_jac_multiplier(pl),
     chunk_start_el_lookup |-> chunk_start_el_lookup(pl),
     chunk_stop_el_lookup |-> chunk_stop_el_lookup(pl),
     branches |-> [fetch_count \in fetch_counts(pl) |->
                    [path |-> get_mat_mul_code(pl, fetch_count).path,
                     body |-> loop_body(pl, fetch_count)]]]

\* a thread: where it is, the branch and path it took, its loop counter, its
\* position in the loop body, its register dof_el and the products its
\* register result has accumulated in this loop iteration
Thread(at, branch, path, seq, ip, dof_el) ==
    [at |-> at, branch |-> branch, path |-> path, seq |-> seq, ip |-> ip,
     dof_el |-> dof_el, result |-> <<>>]

\* one product of the sum: the column of the thread's row of the matrix
\* chunk, and the entry of fluxes_on_faces_tex it is multiplied with, told
\* by the microblock iteration, the element and the face dof
Product(col, seq, el, face_dof) ==
    [col |-> col, seq |-> seq, el |-> el, face_dof |-> face_dof]

\* what get_direct_tex_mat_mul_code accumulates: for j in range(dofs_per_face
\* * faces_per_el), tex1Dfetch(global_mb_facedof_base + dof_el*
\* FACE_DOFS_PER_EL + j) * smem_lift_mat[CHUNK_DOF*LIFTMAT_COLUMNS + j]
direct_products(pl, seq, dof_el) ==
    MapSeq(LAMBDA j : Product(j, seq, dof_el, j), PyRange(pl.face_dofs_per_el))

InitChunked ==
    /\ lplan \in ChunkedPlans
    /\ mod = get_kernel(lplan)
    /\ MB_CHUNK \in 0..(chunks_per_microblock(lplan) - 1)
    /\ pc = [t \in ChunkedThreads(lplan) |->
                Thread("responsibility", 0, "none", 0, 0, Undefined)]
    /\ chunk_start_el = Undefined
    /\ chunk_stop_el = Undefined
    /\ chunk_el_count = Undefined
    /\ dof_buffer = [c \in (0..(lplan.p - 1)) \X (0..(lplan.chunk_size - 1))
                        |-> <<Undefined, Undefined>>]
    /\ flux = <<>>

\* the statement a thread inside the loop body is at
CurrentInstr(th) == mod.branches[th.branch].body[th.ip]

AtInstr(t, op) == pc[t].at = "body" /\ CurrentInstr(pc[t]).op = op

ChunkedFrame ==
    UNCHANGED <<elem_vars, shuffle_vars, staged_vars, host_vars, lplan, mod,
                MB_CHUNK>>

\* "calculate responsibility data": dof_el, and thread 0 sets the shared
\* chunk_start_el, chunk_stop_el, chunk_el_count
Responsibility(t) ==
    /\ pc[t].at = "responsibility"
    /\ IF THREAD_NUM(lplan, t) = 0
       THEN /\ chunk_start_el' = mod.chunk_start_el_lookup[MB_CHUNK + 1]
            /\ chunk_stop_el' = mod.chunk_stop_el_lookup[MB_CHUNK + 1]
            /\ chunk_el_count' =
                    (mod.chunk_stop_el_lookup[MB_CHUNK + 1]
                        - mod.chunk_start_el_lookup[MB_CHUNK + 1]) % UInt16
       ELSE UNCHANGED <<chunk_start_el, chunk_stop_el, chunk_el_count>>
    /\ pc' = [pc EXCEPT ![t] =
                [@ EXCEPT !.at = "sync_responsibility",
                          !.dof_el = (MB_DOF(lplan, MB_CHUNK, t)
                                        \div lplan.dofs_per_el) % UInt8]]
    /\ UNCHANGED <<dof_buffer, flux>>
    /\ ChunkedFrame

AtBarrier(t) == pc[t].at = "sync_responsibility" \/ AtInstr(t, "sync")

\* __syncthreads(): released once every thread of the block waits at one
syncthreads ==
    /\ pc # <<>>
    /\ \A t \in DOMAIN pc : AtBarrier(t)
    /\ pc' = [t \in DOMAIN pc |->
                IF pc[t].at = "sync_responsibility"
                THEN [pc[t] EXCEPT !.at = "load_lift_mat"]
                ELSE [pc[t] EXCEPT !.ip = @ + 1]]
    /\ UNCHANGED <<chunk_start_el, chunk_stop_el, chunk_el_count, dof_buffer, flux>>
    /\ ChunkedFrame

\* get_load_code: the thread's stripe of the lift matrix chunk
LoadLiftMat(t) ==
    /\ pc[t].at = "load_lift_mat"
    /\ pc' = [pc EXCEPT ![t] = [@ EXCEPT !.at = "dispatch"]]
    /\ UNCHANGED <<chunk_start_el, chunk_stop_el, chunk_el_count, dof_buffer, flux>>
    /\ ChunkedFrame

\* make_multiple_ifs: the branch whose fetch_count equals chunk_el_count, if any
Dispatch(t) ==
    /\ pc[t].at = "dispatch"
    /\ pc' = [pc EXCEPT ![t] =
                IF chunk_el_count \in DOMAIN mod.branches
                THEN [@ EXCEPT !.at = "body",
                               !.branch = chunk_el_count,
                               !.path = mod.branches[chunk_el_count].path,
                               !.seq = 0,
                               !.ip = 1,
                               !.result = <<>>]
                ELSE [@ EXCEPT !.at = "done"]]
    /\ UNCHANGED <<chunk_start_el, chunk_stop_el, chunk_el_count, dof_buffer, flux>>
    /\ ChunkedFrame

\* dof_buffer[PAR_MB_NR][CHUNK_DOF] = tex1Dfetch(...): the cell now holds the
\* value of this loop iteration and batch
Fetch(t) ==
    /\ AtInstr(t, "fetch")
    /\ dof_buffer' = [dof_buffer EXCEPT ![<<threadIdx_y(t), threadIdx_x(t)>>] =
                        <<pc[t].seq, CurrentInstr(pc[t]).start>>]
    /\ pc' = [pc EXCEPT ![t] = [@ EXCEPT !.ip = @ + 1]]
    /\ UNCHANGED <<chunk_start_el, chunk_stop_el, chunk_el_count, flux>>
    /\ ChunkedFrame

\* result += smem_lift_mat[...] * dof_buffer[PAR_MB_NR][dof - load_chunk_start]
Mul(t) ==
    /\ AtInstr(t, "mul")
    /\ LET instr == CurrentInstr(pc[t])
           k == instr.dof - instr.start
           cell == dof_buffer[<<threadIdx_y(t), k>>]
       IN  pc' = [pc EXCEPT ![t] =
                    [@ EXCEPT !.ip = @ + 1,
                              !.result = Append(@,
                                    Product(instr.dof, cell[1], chunk_start_el,
                                            cell[2] + k))]]
    /\ UNCHANGED <<chunk_start_el, chunk_stop_el, chunk_el_count, dof_buffer, flux>>
    /\ ChunkedFrame

\* result += tex1Dfetch(...) * smem_lift_mat[...] for every face dof
DirectMul(t) ==
    /\ AtInstr(t, "direct")
    /\ pc' = [pc EXCEPT ![t] =
                [@ EXCEPT !.ip = @ + 1,
                          !.result = @ \o direct_products(lplan, pc[t].seq,
                                                          pc[t].dof_el)]]
    /\ UNCHANGED <<chunk_start_el, chunk_stop_el, chunk_el_count, dof_buffer, flux>>
    /\ ChunkedFrame

\* if (MB_DOF < DOFS_PER_EL*MB_EL_COUNT)
\*     flux[global_mb_dof_base+MB_DOF] = result*<inv_jac_multiplier>;
\* then ++seq_mb_number (MACROBLOCK_NR = 0).  result has accumulated products
\* with smem_lift_mat, the chunk of the matrix gpu_liftmat put on the device.
Store(t) ==
    /\ AtInstr(t, "store")
    /\ LET global_mb_nr == pc[t].seq * lplan.p + threadIdx_y(t)
           global_mb_dof_base == global_mb_nr * lplan.aligned_floats
       IN  flux' = IF MB_DOF(lplan, MB_CHUNK, t) < lplan.dofs_per_el * lplan.elements
                   THEN ((global_mb_dof_base + MB_DOF(lplan, MB_CHUNK, t)) :>
                            Written(mod.liftmat_data.mat, mod.inv_jac_multiplier,
                                    global_mb_nr * lplan.elements + pc[t].dof_el))
                        @@ flux
                   ELSE flux
    /\ pc' = [pc EXCEPT ![t] =
                IF pc[t].seq + 1 < lplan.s
                THEN [@ EXCEPT !.seq = @ + 1, !.ip = 1, !.result = <<>>]
                ELSE [@ EXCEPT !.at = "done", !.seq = @ + 1, !.ip = 0,
                               !.result = <<>>]]
    /\ UNCHANGED <<chunk_start_el, chunk_stop_el, chunk_el_count, dof_buffer>>
    /\ ChunkedFrame

NextChunked ==
    \/ \E t \in DOMAIN pc : Responsibility(t)
    \/ syncthreads
    \/ \E t \in DOMAIN pc : LoadLiftMat(t)
    \/ \E t \in DOMAIN pc : Dispatch(t)
    \/ \E t \in DOMAIN pc : Fetch(t)
    \/ \E t \in DOMAIN pc : Mul(t)
    \/ \E t \in DOMAIN pc : DirectMul(t)
    \/ \E t \in DOMAIN pc : Store(t)

InitChunkedOnly ==
    /\ InitChunked
    /\ kind = "interval" /\ order = 0 /\ fancy_node_ordering = FALSE
    /\ numerics = 0
    /\ memo = [key \in MemoKeys |-> Unset]
    /\ warp = <<>>
    /\ last = [op |-> "__init__", res |-> Ok(<<>>)]
    /\ ShuffleIdle
    /\ plan = <<>> /\ mod_alt = <<>> /\ pc_alt = <<>>
    /\ smem_fluxes_on_faces = <<>> /\ flux_alt = <<>>
    /\ HostIdle

SpecChunked == InitChunkedOnly /\ [][NextChunked]_vars

\* ------------------------------------------------------------ staged kernel
\* the argument is_lift and the plan values the staged kernel is generated
\* from; its block is
\* (microblock.aligned_floats, parallelism.p, 1)
StagedPlans ==
    {pl \in [dofs_per_el : 1..MaxDofsPerEl,
             elements : 1..MaxElements,
             aligned_floats : 1..(MaxDofsPerEl * MaxElements + MaxPadding),
             face_dofs_per_el : 1..MaxFaceDofs,
             aligned_face_dofs : 1..(MaxFaceDofs * MaxElements + MaxPadding),
             p : 1..MaxPar,
             s : 1..MaxSeq,
             is_lift : BOOLEAN] :
        /\ pl.aligned_floats >= pl.dofs_per_el * pl.elements
        /\ pl.aligned_floats <= pl.dofs_per_el * pl.elements + MaxPadding
        /\ pl.aligned_face_dofs >= pl.face_dofs_per_el * pl.elements
        /\ pl.aligned_face_dofs <= pl.face_dofs_per_el * pl.elements + MaxPadding
        /\ pl.aligned_floats * pl.p <= MaxThreads}

\* gpu_lift_mat(is_lift): the matrix lift_mat_tex is set to
gpu_lift_mat(pl) ==
    IF pl.is_lift THEN "lifting_matrix" ELSE "multi_face_mass_matrix"

\* inv_jac_multiplier of get_lift_code
inv_jac_multiplier_alt(pl) ==
    IF pl.is_lift THEN "inverse_jacobians_tex" ELSE "1"

\* the textures the staged module declares
textures_alt(pl) ==
    {"lift_mat_tex"} \cup (IF pl.is_lift THEN {"inverse_jacobians_tex"} ELSE {})

\* the texture references the function is prepared with
texrefs_alt(pl) ==
    {"lift_mat_tex"} \cup (IF pl.is_lift THEN {"inverse_jacobians_tex"} ELSE {})

\* threadIdx.x = MB_DOF, threadIdx.y = PAR_MB_NR
StagedThreads(pl) == (0..(pl.aligned_floats - 1)) \X (0..(pl.p - 1))

\* the multiplies and the store inside if (MB_DOF < DOFS_PER_MB)
guarded_code(pl) ==
    MapSeq(LAMBDA j : Instr("mul", 0, j), PyRange(pl.face_dofs_per_el))
    \o <<Instr("store", 0, 0)>>

\* faulty variant: without the __syncthreads() in front of the load
get_lift_code_without_first_barrier(pl) ==
    <<Instr("load", 0, 0), Instr("sync", 0, 0),
      Instr("if", 0, Len(guarded_code(pl)))>>
    \o guarded_code(pl)

\* faulty variant: the if guards nothing, the multiplies and the store always run
get_lift_code_unguarded(pl) ==
    <<Instr("sync", 0, 0), Instr("load", 0, 0), Instr("sync", 0, 0),
      Instr("if", 0, 0)>>
    \o guarded_code(pl)

\* faulty variant: a third __syncthreads() inside the if
get_lift_code_barrier_in_guard(pl) ==
    <<Instr("sync", 0, 0), Instr("load", 0, 0), Instr("sync", 0, 0),
      Instr("if", 0, Len(guarded_code(pl)) + 1), Instr("sync", 0, 0)>>
    \o guarded_code(pl)

\* get_lift_code: __syncthreads(); the load loop; __syncthreads(); the guarded
\* multiplies and store.  The "if" statement holds the number of statements
\* it guards.
get_lift_code(pl) ==
    <<Instr("sync", 0, 0), Instr("load", 0, 0), Instr("sync", 0, 0),
      Instr("if", 0, Len(guarded_code(pl)))>>
    \o guarded_code(pl)

\* a thread: where it is, seq_mb_number, its position in the loop body, the
\* load loop variable i and its const register mb_el
StagedThread(at, seq, ip, i, mb_el) ==
    [at |-> at, seq |-> seq, ip |-> ip, i |-> i, mb_el |-> mb_el]

InitStaged ==
    /\ plan \in StagedPlans
    /\ mod_alt = get_lift_code(plan)
    /\ pc_alt = [t \in StagedThreads(plan) |->
                    StagedThread("body", 0, 1, threadIdx_x(t),
                        (threadIdx_x(t) \div plan.dofs_per_el) % UInt16)]
    /\ smem_fluxes_on_faces =
            [c \in (0..(plan.p - 1)) \X (0..(plan.aligned_face_dofs - 1))
                |-> Undefined]
    /\ flux_alt = <<>>

StagedInstr(th) == mod_alt[th.ip]

AtStagedInstr(t, op) == pc_alt[t].at = "body" /\ StagedInstr(pc_alt[t]).op = op

\* the thread after statement ip: the next statement, or the next
\* seq_mb_number iteration, or the end of the kernel
StagedAdvance(th, ip) ==
    IF ip <= Len(mod_alt) THEN [th EXCEPT !.ip = ip]
    ELSE IF th.seq + 1 < plan.s THEN [th EXCEPT !.seq = @ + 1, !.ip = 1]
    ELSE [th EXCEPT !.at = "done", !.seq = @ + 1, !.ip = 0]

StagedFrame ==
    UNCHANGED <<elem_vars, shuffle_vars, chunked_vars, host_vars, plan, mod_alt>>

\* __syncthreads() of the staged kernel
syncthreads_alt ==
    /\ pc_alt # <<>>
    /\ \A t \in DOMAIN pc_alt : AtStagedInstr(t, "sync")
    /\ pc_alt' = [t \in DOMAIN pc_alt |-> StagedAdvance(pc_alt[t], pc_alt[t].ip + 1)]
    /\ UNCHANGED <<smem_fluxes_on_faces, flux_alt>>
    /\ StagedFrame

\* for (i = MB_DOF; i < ALIGNED_FACE_DOFS_PER_MB; i += ALIGNED_DOFS_PER_MB)
\*     smem_fluxes_on_faces[PAR_MB_NR][i] = fluxes_on_faces[...]
\* one test of the loop condition, with the assignment it admits
Load(t) ==
    /\ AtStagedInstr(t, "load")
    /\ IF pc_alt[t].i < plan.aligned_face_dofs
       THEN /\ smem_fluxes_on_faces' =
                    [smem_fluxes_on_faces EXCEPT
                        ![<<threadIdx_y(t), pc_alt[t].i>>] = pc_alt[t].seq]
            /\ pc_alt' = [pc_alt EXCEPT ![t] =
                            [@ EXCEPT !.i = @ + plan.aligned_floats]]
       ELSE /\ pc_alt' = [pc_alt EXCEPT ![t] =
                            StagedAdvance([@ EXCEPT !.i = threadIdx_x(t)], @.ip + 1)]
            /\ UNCHANGED smem_fluxes_on_faces
    /\ UNCHANGED flux_alt
    /\ StagedFrame

\* if (MB_DOF < DOFS_PER_MB)
IfValidDof(t) ==
    /\ AtStagedInstr(t, "if")
    /\ pc_alt' = [pc_alt EXCEPT ![t] =
                    IF threadIdx_x(t) < plan.dofs_per_el * plan.elements
                    THEN StagedAdvance(@, @.ip + 1)
                    ELSE StagedAdvance(@, @.ip + 1 + StagedInstr(@).dof)]
    /\ UNCHANGED <<smem_fluxes_on_faces, flux_alt>>
    /\ StagedFrame

\* result += tex2D(lift_mat_tex, EL_DOF, j)
\*           * smem_fluxes_on_faces[PAR_MB_NR][mb_el*FACE_DOFS_PER_EL+j]
MulStaged(t) ==
    /\ AtStagedInstr(t, "mul")
    /\ pc_alt' = [pc_alt EXCEPT ![t] = StagedAdvance(@, @.ip + 1)]
    /\ UNCHANGED <<smem_fluxes_on_faces, flux_alt>>
    /\ StagedFrame

\* flux[GLOBAL_MB_NR*ALIGNED_DOFS_PER_MB + MB_DOF] = result*...
\* (MACROBLOCK_NR = 0)
StoreStaged(t) ==
    /\ AtStagedInstr(t, "store")
    /\ LET global_mb_nr == pc_alt[t].seq * plan.p + threadIdx_y(t)
       IN  flux_alt' =
                ((global_mb_nr * plan.aligned_floats + threadIdx_x(t)) :>
                    Written(gpu_lift_mat(plan), inv_jac_multiplier_alt(plan),
                            global_mb_nr * plan.elements + pc_alt[t].mb_el))
                @@ flux_alt
    /\ pc_alt' = [pc_alt EXCEPT ![t] = StagedAdvance(@, @.ip + 1)]
    /\ UNCHANGED smem_fluxes_on_faces
    /\ StagedFrame

NextStaged ==
    \/ syncthreads_alt
    \/ \E t \in DOMAIN pc_alt : Load(t)
    \/ \E t \in DOMAIN pc_alt : IfValidDof(t)
    \/ \E t \in DOMAIN pc_alt : MulStaged(t)
    \/ \E t \in DOMAIN pc_alt : StoreStaged(t)

InitStagedOnly ==
    /\ InitStaged
    /\ kind = "interval" /\ order = 0 /\ fancy_node_ordering = FALSE
    /\ numerics = 0
    /\ memo = [key \in MemoKeys |-> Unset]
    /\ warp = <<>>
    /\ last = [op |-> "__init__", res |-> Ok(<<>>)]
    /\ ShuffleIdle
    /\ lplan = <<>> /\ mod = <<>> /\ MB_CHUNK = 0 /\ pc = <<>>
    /\ chunk_start_el = 0 /\ chunk_stop_el = 0 /\ chunk_el_count = 0
    /\ dof_buffer = <<>> /\ flux = <<>>
    /\ HostIdle

SpecStaged == InitStagedOnly /\ [][NextStaged]_vars

\* ------------------------------------------------------------ both kernels
\* a launch of either kernel variant
InitKernels == InitChunkedOnly \/ InitStagedOnly

NextKernels == NextChunked \/ NextStaged

SpecKernels == InitKernels /\ [][NextKernels]_vars

\* the device keeps running the threads that can run
SpecKernelsFair == SpecKernels /\ WF_vars(NextKernels)

\* ------------------------------------------------- the stores of a launch
\* the plan values the index arithmetic of either kernel reads
LaunchPlans ==
    {pl \in [chunk_size : 1..MaxChunkSize,
             dofs_per_el : 1..MaxDofsPerEl,
             elements : 1..MaxElements,
             aligned_floats : 1..(MaxDofsPerEl * MaxElements + MaxPadding),
             p : 1..MaxPar,
             s : 1..MaxSeq] :
        /\ pl.aligned_floats >= pl.dofs_per_el * pl.elements
        /\ pl.aligned_floats <= pl.dofs_per_el * pl.elements + MaxPadding}

\* faulty variant: the sequential iteration does not enter the number
GLOBAL_MB_NR_without_seq(pl, MACROBLOCK_NR, seq_mb_number, PAR_MB_NR) ==
    MACROBLOCK_NR * pl.p * pl.s + PAR_MB_NR

\* GLOBAL_MB_NR_BASE + seq_mb_number*PAR_MB_COUNT + PAR_MB_NR, with
\* GLOBAL_MB_NR_BASE = MACROBLOCK_NR*PAR_MB_COUNT*SEQ_MB_COUNT
GLOBAL_MB_NR(pl, MACROBLOCK_NR, seq_mb_number, PAR_MB_NR) ==
    MACROBLOCK_NR * pl.p * pl.s + seq_mb_number * pl.p + PAR_MB_NR

\* the blocks of a launch: (MB_CHUNK, MACROBLOCK_NR) = (blockIdx.x,
\* blockIdx.y) for the chunked kernel, MACROBLOCK_NR = blockIdx.x for the
\* staged one
Blocks(variant, pl, grid) ==
    IF variant = "chunked"
    THEN Concat(MapSeq(LAMBDA mb : MapSeq(LAMBDA chk : <<chk, mb>>,
                                         PyRange(chunks_per_microblock(pl))),
                       PyRange(grid)))
    ELSE MapSeq(LAMBDA mb : <<mb>>, PyRange(grid))

\* the stores to flux the threads of one block of apply_lift_mat make: the
\* block enters the loop of the branch chunk_el_count selects, if any, and
\* each thread stores in each iteration under MB_DOF < DOFS_PER_EL*MB_EL_COUNT
chunked_stores(pl, block) ==
    LET chk == block[1]
        count == (chunk_stop_el_lookup(pl)[chk + 1]
                    - chunk_start_el_lookup(pl)[chk + 1]) % UInt16
    IN  IF count \notin fetch_counts(pl) THEN {}
        ELSE {[block |-> block, thread |-> ts[1], seq |-> ts[2],
               index |-> GLOBAL_MB_NR(pl, block[2], ts[2], threadIdx_y(ts[1]))
                            * pl.aligned_floats + MB_DOF(pl, chk, ts[1])] :
                ts \in {x \in ChunkedThreads(pl) \X (0..(pl.s - 1)) :
                        MB_DOF(pl, chk, x[1]) < pl.dofs_per_el * pl.elements}}

\* the stores the threads of one block of apply_lift_mat_smem make: each
\* thread stores in each iteration under MB_DOF < DOFS_PER_MB
staged_stores(pl, block) ==
    {[block |-> block, thread |-> ts[1], seq |-> ts[2],
      index |-> GLOBAL_MB_NR(pl, block[1], ts[2], threadIdx_y(ts[1]))
                    * pl.aligned_floats + threadIdx_x(ts[1])] :
        ts \in {x \in StagedThreads(pl) \X (0..(pl.s - 1)) :
                threadIdx_x(x[1]) < pl.dofs_per_el * pl.elements}}

\* one launch of either kernel over a grid of macroblocks
InitLaunch ==
    /\ \E variant \in {"chunked", "staged"}, pl \in LaunchPlans,
          grid \in 1..MaxGrid :
            launch = [variant |-> variant, pl |-> pl, grid |-> grid,
                      ran |-> 0, stores |-> {}]
    /\ kind = "interval" /\ order = 0 /\ fancy_node_ordering = FALSE
    /\ numerics = 0
    /\ memo = [key \in MemoKeys |-> Unset]
    /\ warp = <<>>
    /\ last = [op |-> "__init__", res |-> Ok(<<>>)]
    /\ ShuffleIdle
    /\ lplan = <<>> /\ mod = <<>> /\ MB_CHUNK = 0 /\ pc = <<>>
    /\ chunk_start_el = 0 /\ chunk_stop_el = 0 /\ chunk_el_count = 0
    /\ dof_buffer = <<>> /\ flux = <<>>
    /\ plan = <<>> /\ mod_alt = <<>> /\ pc_alt = <<>>
    /\ smem_fluxes_on_faces = <<>> /\ flux_alt = <<>>
    /\ element_groups = <<>>
    /\ memoize_dic_get_kernel = <<>>
    /\ compilations = <<>>
    /\ launches = <<>>
    /\ discr = <<>>
    /\ benchmarks = 0
    /\ PlanIdle

\* the next block runs to its end; what a block stores does not depend on
\* the blocks that ran before it, and the blocks are followed by index
RunBlock ==
    /\ launch # <<>>
    /\ launch.ran < Len(Blocks(launch.variant, launch.pl, launch.grid))
    /\ LET block == Blocks(launch.variant, launch.pl, launch.grid)[launch.ran + 1]
           stores == IF launch.variant = "chunked"
                     THEN chunked_stores(launch.pl, block)
                     ELSE staged_stores(launch.pl, block)
       IN  launch' = [launch EXCEPT !.ran = @ + 1,
                                    !.stores = @ \cup stores]
    /\ UNCHANGED <<elem_vars, shuffle_vars, chunked_vars, staged_vars,
                   element_groups, memoize_dic_get_kernel, compilations,
                   launches, discr, benchmarks, plan_vars>>

NextLaunch == RunBlock

SpecLaunch == InitLaunch /\ [][NextLaunch]_vars

\* ------------------------------------------------- staged kernel object
\* the element groups a discretization can hold; __call__ unpacks exactly one
ElementGroups == {"elgroup_a", "elgroup_b"}

\* faulty variant: the cache is keyed by the element group alone
memoize_args_without_is_lift(is_lift, elgroup) == <<elgroup>>

\* the key @memoize_method files a result of get_kernel under: its arguments
memoize_args(is_lift, elgroup) == <<is_lift, elgroup>>

\* the body of get_kernel: the function compiled for is_lift and elgroup;
\* build tells the compiled modules apart
get_kernel_body(is_lift, elgroup, build) ==
    [name |-> "apply_lift_mat_smem",
     lift_mat_tex |-> IF is_lift THEN "lifting_matrix"
                      ELSE "multi_face_mass_matrix",
     inverse_jacobians_tex |-> IF is_lift THEN <<elgroup>> ELSE <<>>,
     build |-> build]

\* @memoize_method get_kernel: the cached function of the arguments, or the
\* body's result, filed in the cache
get_kernel_alt(cache, is_lift, elgroup, build) ==
    IF memoize_args(is_lift, elgroup) \in DOMAIN cache
    THEN [cache |-> cache, func |-> cache[memoize_args(is_lift, elgroup)],
          compiled |-> FALSE]
    ELSE [cache |-> (memoize_args(is_lift, elgroup) :>
                        get_kernel_body(is_lift, elgroup, build)) @@ cache,
          func |-> get_kernel_body(is_lift, elgroup, build),
          compiled |-> TRUE]

HostFrame ==
    UNCHANGED <<elem_vars, shuffle_vars, chunked_vars, staged_vars, plan_vars>>

\* the flux buffers handed to __call__
FluxInputs == {"fluxes_a", "fluxes_b"}

\* the flags that set(["cuda_lift", "cuda_debugbuf"]) <= discr.debug reads
DebugFlags == {"cuda_lift", "cuda_debugbuf"}

\* discr as the kernel object reads and updates it: its debug flags, whether
\* it is instrumented, and the timer and the counter of the inner flux
Discrs ==
    [debug : SUBSET DebugFlags, instrumented : BOOLEAN,
     inner_flux_timer : {<<>>}, inner_flux_counter : {0}]

\* set(["cuda_lift", "cuda_debugbuf"]) <= discr.debug: gpuarray.zeros((1024,))
\* or a FakeGPUArray()
make_debugbuf(d) ==
    IF {"cuda_lift", "cuda_debugbuf"} \subseteq d.debug THEN "gpuarray.zeros"
    ELSE "FakeGPUArray"

\* faulty variant: the kernel stores into debugbuf and reads it back
prepared_call_using_debugbuf(func, fluxes_on_faces, debugbuf) ==
    [func |-> func, fluxes_on_faces |-> fluxes_on_faces, debugbuf |-> debugbuf]

\* lift.prepared_call(self.grid, flux.gpudata, fluxes_on_faces.gpudata,
\* debugbuf.gpudata): what the launch leaves in flux; apply_lift_mat_smem
\* declares debugbuf and never refers to it
prepared_call(func, fluxes_on_faces, debugbuf) ==
    [func |-> func, fluxes_on_faces |-> fluxes_on_faces]

\* faulty variant: the timer and the counter are fed on every call
instrument_always(d, kernel_time) ==
    [d EXCEPT !.inner_flux_timer = Append(@, kernel_time),
              !.inner_flux_counter = @ + 1]

\* if discr.instrumented: discr.inner_flux_timer.add_time(kernel_time);
\* discr.inner_flux_counter.add()
instrument(d, kernel_time) ==
    IF d.instrumented
    THEN [d EXCEPT !.inner_flux_timer = Append(@, kernel_time),
                   !.inner_flux_counter = @ + 1]
    ELSE d

\* SMemFieldFluxLocalKernel(discr, plan)
InitHost ==
    /\ element_groups \in {<<g>> : g \in ElementGroups}
    /\ memoize_dic_get_kernel = <<>>
    /\ compilations = <<>>
    /\ launches = <<>>
    /\ discr \in Discrs
    /\ benchmarks = 0
    /\ launch = <<>>
    /\ PlanIdle

\* __call__(fluxes_on_faces, is_lift): elgroup, = discr.element_groups;
\* lift = self.get_kernel(is_lift, elgroup); one lift.prepared_timed_call or
\* lift.prepared_call; the debug buffer is printed if it is a real one; the
\* kernel time of the call is told apart by the number of the call
Call(fluxes_on_faces, is_lift) ==
    /\ Len(launches) < MaxCalls
    /\ LET elgroup == element_groups[1]
           got == get_kernel_alt(memoize_dic_get_kernel, is_lift, elgroup,
                                 Len(compilations) + 1)
           debugbuf == make_debugbuf(discr)
       IN  /\ memoize_dic_get_kernel' = got.cache
           /\ compilations' =
                IF got.compiled
                THEN Append(compilations,
                            [is_lift |-> is_lift, elgroup |-> elgroup,
                             call |-> Len(launches) + 1])
                ELSE compilations
           /\ launches' = Append(launches,
                            [is_lift |-> is_lift, elgroup |-> elgroup,
                             lift |-> got.func,
                             fluxes_on_faces |-> fluxes_on_faces,
                             debugbuf |-> debugbuf,
                             kernel_calls |->
                                IF discr.instrumented
                                THEN <<"prepared_timed_call">>
                                ELSE <<"prepared_call">>,
                             printed |-> (debugbuf = "gpuarray.zeros"),
                             flux |-> prepared_call(got.func, fluxes_on_faces,
                                                    debugbuf)])
           /\ discr' = instrument(discr, Len(launches) + 1)
    /\ UNCHANGED <<element_groups, benchmarks, launch>>
    /\ HostFrame

\* benchmark(): lift = self.get_kernel(True, elgroup), then count = 20
\* lift.prepared_call launches between two events
Benchmark ==
    /\ benchmarks < MaxBenchmarks
    /\ LET elgroup == element_groups[1]
           got == get_kernel_alt(memoize_dic_get_kernel, TRUE, elgroup,
                                 Len(compilations) + 1)
       IN  /\ memoize_dic_get_kernel' = got.cache
           /\ compilations' =
                IF got.compiled
                THEN Append(compilations,
                            [is_lift |-> TRUE, elgroup |-> elgroup, call |-> 0])
                ELSE compilations
    /\ benchmarks' = benchmarks + 1
    /\ UNCHANGED <<element_groups, launches, discr, launch>>
    /\ HostFrame

NextHost == \E fluxes_on_faces \in FluxInputs, is_lift \in BOOLEAN :
                Call(fluxes_on_faces, is_lift)

NextApply == NextHost \/ Benchmark

InitHostOnly ==
    /\ InitHost
    /\ kind = "interval" /\ order = 0 /\ fancy_node_ordering = FALSE
    /\ numerics = 0
    /\ memo = [key \in MemoKeys |-> Unset]
    /\ warp = <<>>
    /\ last = [op |-> "__init__", res |-> Ok(<<>>)]
    /\ ShuffleIdle
    /\ lplan = <<>> /\ mod = <<>> /\ MB_CHUNK = 0 /\ pc = <<>>
    /\ chunk_start_el = 0 /\ chunk_stop_el = 0 /\ chunk_el_count = 0
    /\ dof_buffer = <<>> /\ flux = <<>>
    /\ plan = <<>> /\ mod_alt = <<>> /\ pc_alt = <<>>
    /\ smem_fluxes_on_faces = <<>> /\ flux_alt = <<>>

SpecHost == InitHostOnly /\ [][NextHost]_vars

SpecApply == InitHostOnly /\ [][NextApply]_vars

\* ------------------------------------------------------ execution planning
\* bytes of a float: float32 or float64
FloatSizes == {4, 8}

\* the parameters of a discretization the plan reads
Givens ==
    [float_size : FloatSizes,
     aligned_face_dofs_per_microblock : 1..MaxFaceDofs]

\* the device limits
Devices == [shared_memory : 0..MaxSharedMemory]

\* SMemFieldFluxLocalExecutionPlan.shared_mem_use: 64 bytes of parameters and
\* block header, and the staging buffer of every parallel microblock
shared_mem_use(g, p) ==
    64 + g.float_size * (p * g.aligned_face_dofs_per_microblock)

\* the plans the planner tries: one per parallelism
generate_plans(g) == {[p |-> p] : p \in 1..MaxPar}

\* why a plan cannot run on the device, or "none"
invalid_reason(g, pl, dev) ==
    IF shared_mem_use(g, pl.p) > dev.shared_memory
    THEN "too much smem"
    ELSE "none"

\* faulty variant: without a fitting plan the single-lane plan is used anyway
optimize_plan_with_fallback(g, dev) ==
    LET valid == {pl \in generate_plans(g) : invalid_reason(g, pl, dev) = "none"}
    IN  IF valid = {} THEN {Ok([p |-> 1])} ELSE {Ok(pl) : pl \in valid}

\* the outcomes of planning: one of the plans that fit, or a configuration
\* error when none fits
optimize_plan(g, dev) ==
    LET valid == {pl \in generate_plans(g) : invalid_reason(g, pl, dev) = "none"}
    IN  IF valid = {} THEN {Raise("RuntimeError")} ELSE {Ok(pl) : pl \in valid}

\* SMemFieldFluxLocalExecutionPlan.make_kernel(discr)
make_kernel(pl) == [plan |-> pl]

PlanFrame ==
    UNCHANGED <<elem_vars, shuffle_vars, chunked_vars, staged_vars, devdata, given>>

InitPlan ==
    /\ devdata \in Devices
    /\ given \in Givens
    /\ planning = Unset
    /\ kernel = <<>>
    /\ element_groups = <<>>
    /\ memoize_dic_get_kernel = <<>>
    /\ compilations = <<>>
    /\ launches = <<>>
    /\ discr = [debug |-> {}, instrumented |-> FALSE,
                inner_flux_timer |-> <<>>, inner_flux_counter |-> 0]
    /\ benchmarks = 0
    /\ launch = <<>>

\* the planner runs once for a discretization
MakePlan ==
    /\ planning = Unset
    /\ planning' \in optimize_plan(given, devdata)
    /\ UNCHANGED <<kernel, element_groups, memoize_dic_get_kernel, compilations,
                   launches, discr, benchmarks, launch>>
    /\ PlanFrame

\* plan.make_kernel(discr), on the plan the planner returned
MakeKernel ==
    /\ planning.st = "ok"
    /\ kernel = <<>>
    /\ kernel' = make_kernel(planning.val)
    /\ element_groups' \in {<<g>> : g \in ElementGroups}
    /\ UNCHANGED <<planning, memoize_dic_get_kernel, compilations, launches,
                   discr, benchmarks, launch>>
    /\ PlanFrame

\* the kernel object, once made, is called
CallKernel ==
    /\ kernel # <<>>
    /\ \E is_lift \in BOOLEAN : Call("fluxes_a", is_lift)

NextPlan ==
    \/ MakePlan
    \/ MakeKernel
    \/ CallKernel

InitPlanOnly ==
    /\ InitPlan
    /\ kind = "interval" /\ order = 0 /\ fancy_node_ordering = FALSE
    /\ numerics = 0
    /\ memo = [key \in MemoKeys |-> Unset]
    /\ warp = <<>>
    /\ last = [op |-> "__init__", res |-> Ok(<<>>)]
    /\ ShuffleIdle
    /\ lplan = <<>> /\ mod = <<>> /\ MB_CHUNK = 0 /\ pc = <<>>
    /\ chunk_start_el = 0 /\ chunk_stop_el = 0 /\ chunk_el_count = 0
    /\ dof_buffer = <<>> /\ flux = <<>>
    /\ plan = <<>> /\ mod_alt = <<>> /\ pc_alt = <<>>
    /\ smem_fluxes_on_faces = <<>> /\ flux_alt = <<>>

SpecPlan == InitPlanOnly /\ [][NextPlan]_vars

\* ------------------------------------------------------------------ claims
RECURSIVE Binomial(_, _)
Binomial(n, k) ==
    IF k = 0 THEN 1
    ELSE IF n = 0 THEN 0
    ELSE Binomial(n - 1, k - 1) + Binomial(n - 1, k)

Cached(key) == memo[key].st = "ok"

\* C1: node_count() is the binomial C(order + d, d), and node_tuples() returns
\* exactly node_count() pairwise distinct tuples of d non-negative integers
\* whose sum is at most the order (default node ordering never raises).
C1_NodeCountClosedForm ==
    LET d == dimensions(kind)
        n == Binomial(order + d, d)
    IN  /\ last.op = "node_count" => last.res = Ok(n)
        /\ Cached("node_count") => memo["node_count"].val = n
        /\ (last.op = "node_tuples" /\ ~fancy_node_ordering) =>
                last.res.st = "ok"
        /\ (last.op = "node_tuples" /\ last.res.st = "ok") =>
                last.res = memo["node_tuples"]
        /\ Cached("node_tuples") =>
            LET nts == memo["node_tuples"].val
            IN  /\ Len(nts) = n
                /\ \A i, j \in 1..Len(nts) : nts[i] = nts[j] => i = j
                /\ \A i \in 1..Len(nts) :
                    /\ Len(nts[i]) = d
                    /\ \A c \in 1..d : nts[i][c] >= 0
                    /\ SumSeq(nts[i]) <= order

C1_Witness ==
    /\ kind = "tetrahedron" /\ order = 2
    /\ last.op = "node_tuples" /\ last.res.st = "ok"
    /\ Cached("node_count")

\* C2: for every kind and every order 0..8, unit_nodes() completes without
\* raising and returns exactly node_count() nodes.
C2_UnitNodesSucceed ==
    (last.op = "unit_nodes" /\ ~fancy_node_ordering /\ order <= 8) =>
        /\ last.res.st = "ok"
        /\ Len(last.res.val) = Binomial(order + dimensions(kind), dimensions(kind))

\* C3: multi_face_mass_matrix() is node_count x (face_count * w); the block of
\* face f holds face_mass row k at row face_indices()[f][k], and every entry
\* of that block in a row that is no node of face f is zero.
C3_MultiFaceMassScatter ==
    Cached("multi_face_mass_matrix") =>
        LET mfm == memo["multi_face_mass_matrix"].val
            fm == memo["face_mass_matrix"].val
            fi == memo["face_indices"].val
            w == fm.cols
        IN  /\ last.op = "multi_face_mass_matrix" => last.res = Ok(mfm)
            /\ mfm.rows = memo["node_count"].val
            /\ mfm.cols = memo["face_count"].val * w
            /\ Len(fi) = memo["face_count"].val
            /\ \A f \in 0..(Len(fi) - 1) : \A c \in 0..(w - 1) :
                /\ \A k \in 0..(memo["face_node_count"].val - 1) :
                    At(mfm, fi[f + 1][k + 1], f * w + c) = At(fm, k, c)
                /\ \A r \in 0..(mfm.rows - 1) :
                    r \notin Range(fi[f + 1]) => At(mfm, r, f * w + c) = 0

C3_Witness ==
    /\ kind = "triangle" /\ order = 2
    /\ last.op = "multi_face_mass_matrix" /\ last.res.st = "ok"
    /\ \E r \in 0..5 : r \notin Range(memo["face_indices"].val[1])

RECURSIVE MatVecEntry(_, _, _, _)
MatVecEntry(A, x, r, c) ==
    IF c = A.cols THEN 0 ELSE At(A, r, c) * x[c + 1] + MatVecEntry(A, x, r, c + 1)

MatVec(A, x) == MapSeq(LAMBDA r : MatVecEntry(A, x, r, 0), PyRange(A.rows))

UnitVector(n, i) == MapSeq(LAMBDA j : IF j = i THEN 1 ELSE 0, PyRange(n))

\* C4: the value lifting_matrix() returns is inverse_mass_matrix() times
\* multi_face_mass_matrix(): for every face-dof unit vector e_i,
\* lifting * e_i = inverse_mass * (multi_face_mass * e_i).
C4_LiftingIsProduct ==
    Cached("lifting_matrix") =>
        LET lift == memo["lifting_matrix"].val
            im == memo["inverse_mass_matrix"].val
            mfm == memo["multi_face_mass_matrix"].val
        IN  /\ last.op = "lifting_matrix" => last.res = Ok(lift)
            /\ Cached("inverse_mass_matrix") /\ Cached("multi_face_mass_matrix")
            /\ lift.rows = im.rows /\ lift.cols = mfm.cols
            /\ \A i \in 0..(mfm.cols - 1) :
                MatVec(lift, UnitVector(mfm.cols, i))
                    = MatVec(im, MatVec(mfm, UnitVector(mfm.cols, i)))

C4_Witness ==
    /\ kind = "tetrahedron" /\ order = 1
    /\ last.op = "lifting_matrix" /\ last.res.st = "ok"
    /\ memo["lifting_matrix"].val.cols = 12

\* the face node count the claim states for each kind
ExpectedFaceNodeCount ==
    CASE kind = "interval" -> 1
      [] kind = "triangle" -> order + 1
      [] kind = "tetrahedron" -> ((order + 1) * (order + 2)) \div 2

\* C5: all dimensions + 1 entries of face_indices() have the same length, the
\* number of face_basis() functions (1, order + 1, (order + 1)(order + 2)/2),
\* so face_vandermonde is square and face_node_count() is valid for every face.
C5_FaceNodeCountUniform ==
    /\ Cached("face_indices") =>
        LET fi == memo["face_indices"].val
        IN  /\ Len(fi) = dimensions(kind) + 1
            /\ \A f \in 1..Len(fi) :
                /\ Len(fi[f]) = ExpectedFaceNodeCount
                /\ Len(fi[f]) = face_basis_count(kind, order)
    /\ Cached("face_node_count") =>
        /\ memo["face_node_count"].val = ExpectedFaceNodeCount
        /\ \A f \in 1..Len(memo["face_indices"].val) :
            Len(memo["face_indices"].val[f]) = memo["face_node_count"].val
    /\ Cached("face_vandermonde") =>
        memo["face_vandermonde"].val.rows = memo["face_vandermonde"].val.cols

C5_Witness ==
    /\ kind = "tetrahedron" /\ order = 2
    /\ last.op = "face_node_count" /\ last.res = Ok(6)
    /\ Cached("face_indices")

\* number of occurrences of v in the tuple t
Occurrences(t, v) == Cardinality({i \in 1..Len(t) : t[i] = v})

IsPermutationOf(face_2, face_1) ==
    /\ Len(face_2) = Len(face_1)
    /\ \A v \in Range(face_1) \cup Range(face_2) :
        Occurrences(face_2, v) = Occurrences(face_1, v)

\* C6: get_face_index_shuffle_to_match raises FaceVertexMismatch whenever
\* face_2_vertices is not a permutation of face_1_vertices; it raises no other
\* error kind and returns no shuffle in that case.
C6_MismatchIsFaceVertexMismatch ==
    (/\ last.op = "get_face_index_shuffle_to_match"
     /\ Cached("get_face_index_shuffle_lookup_map")
     /\ ~IsPermutationOf(face_2_vertices, face_1_vertices))
        => last.res = Raise("FaceVertexMismatch")

\* C7: in the chunked kernel, under every interleaving of the threads of a
\* block, a thread about to read dof_buffer[lane][k] finds the value fetched
\* for its own loop iteration and batch: the cell has been written for this
\* batch and has not been overwritten for a later one.  Stated for the
\* threads whose result reaches the output (MB_DOF below the valid dofs).
C7_DofBufferRaceFree ==
    \A t \in DOMAIN pc :
        (/\ AtInstr(t, "mul")
         /\ MB_DOF(lplan, MB_CHUNK, t) < lplan.dofs_per_el * lplan.elements) =>
            LET instr == CurrentInstr(pc[t])
            IN  dof_buffer[<<threadIdx_y(t), instr.dof - instr.start>>]
                    = <<pc[t].seq, instr.start>>

\* C8: in the staged kernel, under every interleaving of the threads of a
\* block and in every seq_mb_number iteration, a thread about to read
\* smem_fluxes_on_faces in the multiply step finds the value loaded in its own
\* iteration: the load of this iteration is complete and the load of the
\* next one has not touched the entry.
C8_StagedBufferRaceFree ==
    \A t \in DOMAIN pc_alt :
        AtStagedInstr(t, "mul") =>
            smem_fluxes_on_faces[<<threadIdx_y(t),
                pc_alt[t].mb_el * plan.face_dofs_per_el
                    + StagedInstr(pc_alt[t]).dof>>] = pc_alt[t].seq

C8_Witness ==
    \E t, u \in DOMAIN pc_alt :
        /\ t # u
        /\ AtStagedInstr(t, "mul") /\ pc_alt[t].seq = 0
        /\ AtStagedInstr(u, "sync") /\ pc_alt[u].seq = 1 /\ pc_alt[u].ip = 1
        /\ pc_alt[t].mb_el = pc_alt[u].mb_el

\* the dofs of chunk c that lie in the elements of the microblock
ValidChunkDofs(pl, c) ==
    {d \in (c * pl.chunk_size)..(c * pl.chunk_size + pl.chunk_size - 1) :
        d < pl.dofs_per_el * pl.elements}

\* the elements that hold a valid dof of chunk c
ElementsTouched(pl, c) == {d \div pl.dofs_per_el : d \in ValidChunkDofs(pl, c)}

SetMin(S) == CHOOSE x \in S : \A y \in S : x <= y
SetMax(S) == CHOOSE x \in S : \A y \in S : y <= x

\* C9: for every chunk whose first dof is below dofs_per_el * elements, the
\* start table holds the element of its first dof, the stop table one past
\* the element of its last valid dof, and chunk_el_count = stop - start is the
\* number of distinct elements among its valid dofs, at least 1.
C9_ChunkTables ==
    /\ Len(mod.chunk_start_el_lookup) = chunks_per_microblock(lplan)
    /\ Len(mod.chunk_stop_el_lookup) = chunks_per_microblock(lplan)
    /\ \A c \in 0..(chunks_per_microblock(lplan) - 1) :
        c * lplan.chunk_size < lplan.dofs_per_el * lplan.elements =>
            LET start == mod.chunk_start_el_lookup[c + 1]
                stop == mod.chunk_stop_el_lookup[c + 1]
                touched == ElementsTouched(lplan, c)
            IN  /\ start = SetMin(touched)
                /\ stop = SetMax(touched) + 1
                /\ stop - start = Cardinality(touched)
                /\ stop - start >= 1
    /\ (/\ MB_CHUNK * lplan.chunk_size < lplan.dofs_per_el * lplan.elements
        /\ \E t \in DOMAIN pc :
                pc[t].at \notin {"responsibility", "sync_responsibility"})
        => /\ chunk_start_el = SetMin(ElementsTouched(lplan, MB_CHUNK))
           /\ chunk_stop_el = SetMax(ElementsTouched(lplan, MB_CHUNK)) + 1
           /\ chunk_el_count = Cardinality(ElementsTouched(lplan, MB_CHUNK))
           /\ chunk_el_count >= 1

C9_Witness ==
    /\ chunk_el_count = 2
    /\ MB_CHUNK = 1
    /\ \E t \in DOMAIN pc : pc[t].at = "done"

\* C10: a block runs at most one branch of the chunk_el_count dispatch: the
\* batched path exactly when chunk_el_count = 1, the direct path exactly when
\* 2 <= chunk_el_count <= max_elements_touched_by_chunk, and never the
\* batched path for a chunk that spans more than one element.
C10_DispatchByElCount ==
    /\ \A t \in DOMAIN pc :
        IF pc[t].at \in {"body", "done"}
        THEN /\ pc[t].path = "batched" <=> chunk_el_count = 1
             /\ pc[t].path = "direct" <=>
                    (2 <= chunk_el_count
                        /\ chunk_el_count <= max_elements_touched_by_chunk(lplan))
             /\ Cardinality(ElementsTouched(lplan, MB_CHUNK)) > 1
                    => pc[t].path # "batched"
             /\ pc[t].path # "none" => pc[t].branch = chunk_el_count
        ELSE pc[t].path = "none"
    /\ \A t, u \in DOMAIN pc :
        (pc[t].path # "none" /\ pc[u].path # "none") =>
            (pc[t].path = pc[u].path /\ pc[t].branch = pc[u].branch)

C10_Witness ==
    \E t, u \in DOMAIN pc :
        /\ t # u
        /\ pc[t].path = "direct" /\ pc[t].at = "done"
        /\ pc[u].path = "direct" /\ pc[u].at = "body"
        /\ Cardinality(ElementsTouched(lplan, MB_CHUNK)) = 2


\* the indices of the output buffer that hold a dof of an element: microblocks
\* 0..p*s-1 of the launch, microblock-local dofs below DOFS_PER_EL*MB_EL_COUNT
ValidFluxIndices(pl) ==
    {g * pl.aligned_floats + d :
        g \in 0..(pl.p * pl.s - 1), d \in 0..(pl.dofs_per_el * pl.elements - 1)}

\* C11: in both kernel variants every index of flux written by the launch is
\* a microblock-local dof below DOFS_PER_EL*MB_EL_COUNT of one of the launch's
\* microblocks: a thread with MB_DOF >= DOFS_PER_EL*MB_EL_COUNT writes
\* nothing, so the alignment padding of every microblock stays as it was.
C11_PaddingNeverWritten ==
    /\ lplan # <<>> => DOMAIN flux \subseteq ValidFluxIndices(lplan)
    /\ plan # <<>> => DOMAIN flux_alt \subseteq ValidFluxIndices(plan)

C11_Witness ==
    /\ lplan # <<>>
    /\ lplan.s = 2
    /\ \E t, u \in DOMAIN pc :
        /\ pc[t].at = "done"
        /\ MB_DOF(lplan, MB_CHUNK, t) >= lplan.dofs_per_el * lplan.elements
        /\ pc[u].at = "done"
        /\ MB_DOF(lplan, MB_CHUNK, u) < lplan.dofs_per_el * lplan.elements
    /\ Cardinality(DOMAIN flux) = 2


\* the element that owns the dof at index i of the output buffer: microblock
\* i div aligned_floats, element (i mod aligned_floats) div dofs_per_el in it
OwnerElement(pl, i) ==
    (i \div pl.aligned_floats) * pl.elements
        + (i % pl.aligned_floats) \div pl.dofs_per_el

\* what a launch generated from pl has to have written at index i
ExpectedWritten(pl, i) ==
    IF pl.is_lift
    THEN [result |-> "lifting_matrix", times |-> "inverse_jacobians_tex",
          el |-> OwnerElement(pl, i)]
    ELSE [result |-> "multi_face_mass_matrix", times |-> "1", el |-> Undefined]

\* C12: in both kernel variants, with is_lift the applied matrix is
\* lifting_matrix() and every written output is the accumulated result times
\* the inverse Jacobian of the element that owns the dof (global_mb_nr *
\* MB_EL_COUNT + element in the microblock); without is_lift the applied
\* matrix is multi_face_mass_matrix(), the output is the unscaled result and
\* no inverse-Jacobian texture is declared or bound.
C12_LiftScalesByInverseJacobian ==
    /\ lplan # <<>> =>
        /\ \A i \in DOMAIN flux : flux[i] = ExpectedWritten(lplan, i)
        /\ mod.liftmat_data.mat = ExpectedWritten(lplan, 0).result
        /\ lplan.is_lift <=> "inverse_jacobians_tex" \in mod.textures
        /\ lplan.is_lift <=> "inverse_jacobians_tex" \in mod.texrefs
    /\ plan # <<>> =>
        /\ \A i \in DOMAIN flux_alt : flux_alt[i] = ExpectedWritten(plan, i)
        /\ gpu_lift_mat(plan) = ExpectedWritten(plan, 0).result
        /\ plan.is_lift <=> "inverse_jacobians_tex" \in textures_alt(plan)
        /\ plan.is_lift <=> "inverse_jacobians_tex" \in texrefs_alt(plan)

C12_Witness ==
    /\ plan # <<>>
    /\ plan.is_lift
    /\ \E i \in DOMAIN flux_alt :
        /\ flux_alt[i].el = 3
        /\ flux_alt[i].times = "inverse_jacobians_tex"
        /\ i = 3

\* the apply calls made with is_lift and the element group of the object
CallsWith(is_lift, elgroup) ==
    {k \in 1..Len(launches) :
        launches[k].is_lift = is_lift /\ launches[k].elgroup = elgroup}

\* C13: over any sequence of apply calls on one kernel object, the kernel of
\* a pair (is_lift, element group) is generated and compiled exactly once, on
\* the first call with that pair; every later call with the pair runs that
\* same compiled function, and a call never runs the kernel of the other
\* is_lift value.
C13_CompiledOncePerPair ==
    \A is_lift \in BOOLEAN, elgroup \in ElementGroups :
        LET calls == CallsWith(is_lift, elgroup)
            builds == {b \in 1..Len(compilations) :
                        /\ compilations[b].is_lift = is_lift
                        /\ compilations[b].elgroup = elgroup}
        IN  IF calls = {}
            THEN builds = {}
            ELSE /\ Cardinality(builds) = 1
                 /\ \A b \in builds :
                    /\ compilations[b].call = SetMin(calls)
                    /\ \A k \in calls :
                        launches[k].lift = get_kernel_body(is_lift, elgroup, b)

C13_Witness ==
    /\ Len(launches) >= 4
    /\ launches[1].is_lift = TRUE
    /\ launches[2].is_lift = FALSE
    /\ launches[3].is_lift = TRUE
    /\ launches[4].is_lift = FALSE
    /\ Len(compilations) = 2

\* the matrix accessors of a reference element
MatrixAccessors ==
    {"vandermonde", "inverse_mass_matrix", "mass_matrix",
     "differentiation_matrices", "face_mass_matrix", "multi_face_mass_matrix",
     "lifting_matrix"}

\* what an accessor returns on an element nothing has been called on
FirstAccess(key) ==
    LET fresh == [k \in MemoKeys |-> Unset]
    IN  CASE key = "vandermonde" -> vandermonde(fresh).res
          [] key = "inverse_mass_matrix" -> inverse_mass_matrix(fresh).res
          [] key = "mass_matrix" -> mass_matrix(fresh).res
          [] key = "differentiation_matrices" ->
                differentiation_matrices(fresh).res
          [] key = "face_mass_matrix" -> face_mass_matrix(fresh).res
          [] key = "multi_face_mass_matrix" -> multi_face_mass_matrix(fresh).res
          [] key = "lifting_matrix" -> lifting_matrix(fresh).res

\* C14: over any sequence of calls to the matrix accessors of one element,
\* a matrix an accessor has returned is filed at that first access and is
\* never built again: every later step leaves it as it is, every call of the
\* accessor returns that value, and the value does not depend on which other
\* accessors were called before.
C14_MatricesBuiltOnce ==
    [][/\ \A key \in MatrixAccessors :
            Cached(key) => memo'[key] = memo[key]
       /\ (last'.op \in MatrixAccessors /\ last'.res.st = "ok") =>
            /\ memo'[last'.op] = last'.res
            /\ last'.res = FirstAccess(last'.op)]_vars

C14_Witness ==
    /\ last.op = "vandermonde"
    /\ last.res.st = "ok"
    /\ \A key \in MatrixAccessors : Cached(key)
    /\ kind = "triangle" /\ order = 1

\* C15: when the shared memory of the device is smaller than what one tile
\* needs (shared_mem_use() at parallelism p = 1), planning ends in a
\* configuration error: no plan is returned, no kernel object is made and
\* nothing is launched; and a kernel that is made never has a staging buffer
\* larger than the device's shared memory.
C15_NoPlanBelowOneTile ==
    /\ shared_mem_use(given, 1) > devdata.shared_memory =>
        /\ planning \in {Unset, Raise("RuntimeError")}
        /\ kernel = <<>>
        /\ launches = <<>>
    /\ kernel # <<>> =>
        shared_mem_use(given, kernel.plan.p) <= devdata.shared_memory

C15_Witness ==
    /\ shared_mem_use(given, 1) = devdata.shared_memory + 1
    /\ planning = Raise("RuntimeError")

\* C16: an element of negative order is never constructed: asking for one
\* makes the constructor raise, so no element with order < 0 exists on which
\* node_count(), node_tuples() or face_indices() returns a result; and a
\* geometry without an entry in GEOMETRY_TO_LDIS is rejected by the lookup.
C16_NegativeOrderRejected ==
    /\ order < 0 =>
        /\ last.op \in {"__init__", "GEOMETRY_TO_LDIS"}
        /\ last.res.st = "error"
    /\ kind \notin Kinds =>
        last = [op |-> "GEOMETRY_TO_LDIS", res |-> Raise("KeyError")]

\* a numbering accessor has returned a result on an element of negative order
C16_NegativeOrderAnswers ==
    /\ order < 0
    /\ last.op = "face_indices"
    /\ last.res.st = "ok"
    /\ Cached("node_tuples")

\* equality of two rationals with positive denominators
RatEq(a, b) ==
    IF a.den = b.den THEN a.num = b.num ELSE a.num * b.den = b.num * a.den

\* the 15-entry table of the element's kind
AlphaTable == 
    IF kind = "triangle" THEN alpha_opt_triangle ELSE alpha_opt_tetrahedron

\* C17: for the triangle and for the tetrahedron node construction, alpha is
\* entry order-1 of the 15-entry table for every order in 1..15, and the
\* default 5/3 for every order of 16 and more.
C17_AlphaTableThenDefault ==
    last.op = "alpha" =>
        /\ Len(AlphaTable) = 15
        /\ order \in 1..15 =>
            /\ last.res.st = "ok"
            /\ RatEq(last.res.val, Rat(AlphaTable[order], 100000))
        /\ order >= 16 =>
            /\ last.res.st = "ok"
            /\ RatEq(last.res.val, Rat(5, 3))

\* the tetrahedron construction has chosen its alpha for an order beyond the
\* table
C17_TetrahedronBeyondTable ==
    /\ last.op = "alpha"
    /\ kind = "tetrahedron"
    /\ order = 16

\* ------------------------------------------------------------------ C18
\* the face of the pair under way, and the vertex opposite to it
BlendFace == face_vertex_indices[warp.face]

\* the node lies on an edge or a vertex of the face: its coordinate of the
\* opposite vertex and its coordinate of some vertex of the face are zero
OnEdgeOfFace ==
    /\ warp.bp[opp_vertex_index(BlendFace) + 1] = 0
    /\ \E k \in 1..Len(BlendFace) : warp.bp[BlendFace[k] + 1] = 0

\* the node lies on an edge of the tetrahedron: two of its coordinates vanish
OnEdgeOfTetrahedron ==
    \E a, b \in 1..4 : a # b /\ warp.bp[a] = 0 /\ warp.bp[b] = 0

\* C18: for every equidistant node and each of the four faces, the blend is
\* never divided by a denominator of magnitude at most 1e-12; where such a
\* denominator comes up the blend is exactly 0.5 and the loop has stopped;
\* this happens exactly for the nodes on an edge or vertex of the face, and
\* for no face if the node is on no edge of the tetrahedron.
C18_BlendClampedOnEdges ==
    warp # <<>> =>
        /\ \A k \in 1..Len(warp.divisions) :
              /\ abs_exceeds_1e_12(warp.divisions[k])
              /\ warp.divisions[k].num # 0
        /\ warp.blend.half => (warp.done /\ warp.blend = blend_half)
        /\ warp.done =>
              /\ warp.blend.half <=> OnEdgeOfFace
              /\ ~OnEdgeOfTetrahedron => ~warp.blend.half
              /\ ~warp.blend.half =>
                    /\ Len(warp.divisions) = Len(BlendFace)
                    /\ warp.blend.divided_by = warp.divisions

\* a pair where the clamp fired after a division had been made
C18_Witness ==
    /\ warp # <<>>
    /\ warp.done
    /\ warp.blend.half
    /\ OnEdgeOfFace
    /\ Len(warp.divisions) >= 1

\* a node on no edge of the tetrahedron whose three divisions were all made
C18_WitnessInterior ==
    /\ warp # <<>>
    /\ warp.done
    /\ ~OnEdgeOfTetrahedron
    /\ Len(warp.divisions) = 3

\* ------------------------------------------------------------------ C19
RealEq(a, b) ==
    /\ a # Irrational
    /\ b # Irrational
    /\ a.num * b.den = b.num * a.den
    /\ (a.num # 0 => a.rad = b.rad)

PointEq(p, q) ==
    /\ Len(p) = Len(q)
    /\ \A c \in 1..Len(p) : RealEq(p[c], q[c])

\* a vertex: a unit barycentric vector e_i
IsVertex(bary) ==
    \E v \in 1..Len(bary) :
        \A c \in 1..Len(bary) :
            RealEq(bary[c], IF c = v THEN Frac(1, 1) ELSE Frac(0, 1))

BackInBarycentric == warp # <<>> /\ warp.stage = "barycentric"

\* C19: for the interval, the triangle and the tetrahedron, and for every
\* vertex e_i, barycentric -> equilateral -> unit -> barycentric is defined
\* and returns e_i.
C19_VertexRoundTrip ==
    (BackInBarycentric /\ IsVertex(warp.bary)) =>
        /\ warp.point.st = "ok"
        /\ PointEq(warp.point.val, warp.bary)

\* what the maps do: the interval returns every point; the triangle returns
\* the coordinates moved round by one place; the tetrahedron's
\* unit_to_barycentric adds a vector of 3 to a vector of 4 and raises
C19_WhatTheMapsDo ==
    BackInBarycentric =>
        CASE kind = "interval" ->
                warp.point.st = "ok" /\ PointEq(warp.point.val, warp.bary)
          [] kind = "triangle" ->
                /\ warp.point.st = "ok"
                /\ PointEq(warp.point.val,
                           <<warp.bary[2], warp.bary[3], warp.bary[1]>>)
          [] kind = "tetrahedron" -> warp.point = Raise("ValueError")

\* the triangle's vertex (1,0,0) has come back as (0,0,1)
C19_TriangleVertexMoved ==
    /\ BackInBarycentric
    /\ kind = "triangle"
    /\ PointEq(warp.bary, <<Frac(1, 1), Frac(0, 1), Frac(0, 1)>>)
    /\ warp.point.st = "ok"
    /\ PointEq(warp.point.val, <<Frac(0, 1), Frac(0, 1), Frac(1, 1)>>)

\* ------------------------------------------------------------------ C20
\* the identity permutation of the face's vertices
IdentityPermutation == [i \in 1..dimensions(kind) |-> i - 1]

LookupMapReturned ==
    last.op = "get_face_index_shuffle_lookup_map" /\ last.res.st = "ok"

\* C20: the lookup table has one entry for every permutation of the face's
\* `dimensions` vertices; the shuffle of a permutation followed by the shuffle
\* of its inverse returns the tuple of face-dof indices it started from; the
\* shuffle of the identity permutation is the identity index map.
C20_ShuffleThenInverseRestores ==
    LookupMapReturned =>
        /\ Cardinality(DOMAIN LookupMap) = Factorial(dimensions(kind))
        /\ \A p \in DOMAIN LookupMap :
              /\ Len(p) = dimensions(kind)
              /\ Range(p) = 0..(dimensions(kind) - 1)
              /\ LookupMap[p].vert_perm = p
        /\ \A j \in 1..Len(LookupMap[IdentityPermutation].idx_map) :
              LookupMap[IdentityPermutation].idx_map[j] = j - 1
        /\ warp # <<>> =>
              /\ warp.vert_perm = IdentityPermutation =>
                    warp.shuffled = warp.indices
              /\ warp.stage = "back" => warp.back = warp.indices

\* a shuffle that moved the indices of a face has been undone
C20_Witness ==
    /\ LookupMapReturned
    /\ warp # <<>>
    /\ warp.stage = "back"
    /\ warp.vert_perm # IdentityPermutation
    /\ warp.vert_perm # inverse_permutation(warp.vert_perm)
    /\ warp.shuffled # warp.indices
    /\ warp.back = warp.indices

\* ------------------------------------------------------------------ C21
\* the node tuples of the element, in the order of node_tuples()
NodeTups == node_tuples_body(kind, order, fancy_node_ordering).val

\* p is the map of node numbers that swapping components 0 and k of every
\* node tuple induces: an involution of 0..node_count-1, the identity for k = 0
InducedInvolution(p, k) ==
    /\ Len(p) = node_count_body(kind, order)
    /\ \A i \in 1..Len(p) :
          /\ p[i] \in 0..(Len(p) - 1)
          /\ p[p[i] + 1] = i - 1
          /\ NodeTups[p[i] + 1] =
                [NodeTups[i] EXCEPT ![1] = NodeTups[i][k + 1],
                                    ![k + 1] = NodeTups[i][1]]
    /\ (k = 0 => \A i \in 1..Len(p) : p[i] = i - 1)

\* C21: on every triangle and tetrahedron and for every axis k below the
\* dimension, find_diff_mat_permutation(k) returns the permutation induced by
\* swapping components 0 and k of the node tuples, and never aborts.
C21_DiffMatPermutationReturned ==
    last.op = "find_diff_mat_permutation" =>
        /\ last.res.st = "ok"
        /\ InducedInvolution(last.res.val, last.target_idx)

\* what the call does: for order 0 it ends in the ZeroDivisionError of the
\* nodes the matrices are built on (in the AssertionError of node_tuples()
\* with the fancy ordering); for every order above it returns the induced
\* involution
C21_AbortsOnlyAtOrderZero ==
    last.op = "find_diff_mat_permutation" =>
        IF order = 0
        THEN last.res = (IF fancy_node_ordering THEN Raise("AssertionError")
                         ELSE Raise("ZeroDivisionError"))
        ELSE /\ last.res.st = "ok"
             /\ InducedInvolution(last.res.val, last.target_idx)

\* a permutation that moves nodes has been returned
C21_MovingPermutation ==
    /\ last.op = "find_diff_mat_permutation"
    /\ last.res.st = "ok"
    /\ last.target_idx > 0
    /\ \E i \in 1..Len(last.res.val) : last.res.val[i] # i - 1

\* ------------------------------------------------------------------ C22
\* |jacobian| / max|face_jacobian| of the element of the last call, as the
\* pair of the largest face jacobian f and the jacobian j with value |j| / f
NaiveFactor ==
    LET f == CHOOSE v \in 1..MaxJacobian + 1 :
                 /\ \E i \in 1..4 : Abs(last.el.face_jacobians[i]) = v
                 /\ \A i \in 1..4 : Abs(last.el.face_jacobians[i]) <= v
    IN  [j |-> Abs(last.el.jacobian), f |-> f]

\* C22: the tetrahedron's dt_geometric_factor returns
\* |jacobian| / max|face_jacobian| divided by exactly 2 for the orders 1 and
\* 2 and undivided for every other order, and it returns: it raises nothing.
C22_HalvedForOrders1And2 ==
    last.op = "dt_geometric_factor" =>
        /\ last.res.st = "ok"
        /\ IF order = 1 \/ order = 2
           THEN 2 * last.res.val.num * NaiveFactor.f =
                    NaiveFactor.j * last.res.val.den
           ELSE last.res.val.num * NaiveFactor.f =
                    NaiveFactor.j * last.res.val.den

\* an order-2 tetrahedron got half of a factor that is not 1
C22_Witness ==
    /\ last.op = "dt_geometric_factor"
    /\ order = 2
    /\ last.res.st = "ok"
    /\ NaiveFactor.j # NaiveFactor.f
    /\ 2 * last.res.val.num * NaiveFactor.f = NaiveFactor.j * last.res.val.den

\* an order-3 tetrahedron got the factor undivided
C22_WitnessUnhalved ==
    /\ last.op = "dt_geometric_factor"
    /\ order = 3
    /\ last.res.st = "ok"
    /\ last.res.val.num * NaiveFactor.f = NaiveFactor.j * last.res.val.den

\* ------------------------------------------- debug flags and instrumentation

\* what __call__ returns for the same fluxes_on_faces, is_lift and
\* discretization when no debug flag is set and instrumentation is off
PlainVolume(c) ==
    prepared_call(get_kernel_body(c.is_lift, c.elgroup, c.lift.build),
                  c.fluxes_on_faces, "FakeGPUArray")

BothDebugFlags == {"cuda_lift", "cuda_debugbuf"} \subseteq discr.debug

\* C23: for the same flux input, is_lift and discretization, the volume
\* buffer __call__ returns is the one the call returns with no debug flag and
\* no instrumentation, whatever the flags and the instrumentation of discr;
\* a real debug buffer is allocated and printed only when both cuda_lift and
\* cuda_debugbuf are set; every call makes exactly one kernel launch.
C23_VolumeIndependentOfDebugAndTiming ==
    \A k \in 1..Len(launches) :
        LET c == launches[k]
        IN  /\ c.flux = PlainVolume(c)
            /\ (c.debugbuf = "gpuarray.zeros") <=> BothDebugFlags
            /\ c.printed <=> BothDebugFlags
            /\ Len(c.kernel_calls) = 1
            /\ \A j \in 1..Len(launches) :
                  (launches[j].is_lift = c.is_lift
                   /\ launches[j].fluxes_on_faces = c.fluxes_on_faces)
                  => launches[j].flux = c.flux

\* a call with both debug flags set and instrumentation on has printed a
\* real debug buffer and returned the plain volume
C23_Witness ==
    /\ BothDebugFlags
    /\ discr.instrumented
    /\ Len(launches) >= 2
    /\ launches[1].printed
    /\ launches[1].kernel_calls = <<"prepared_timed_call">>
    /\ launches[1].flux = PlainVolume(launches[1])
    /\ launches[2].flux # launches[1].flux

\* a call with one debug flag only runs without a debug buffer
C23_WitnessOneFlag ==
    /\ discr.debug = {"cuda_lift"}
    /\ Len(launches) >= 1
    /\ launches[1].debugbuf = "FakeGPUArray"
    /\ ~launches[1].printed

C24_Steps ==
    [][/\ benchmarks' # benchmarks => discr' = discr
       /\ launches' # launches =>
            IF discr.instrumented
            THEN /\ discr'.inner_flux_counter = discr.inner_flux_counter + 1
                 /\ Len(discr'.inner_flux_timer) =
                        Len(discr.inner_flux_timer) + 1
            ELSE discr' = discr]_vars

C24_WitnessOff ==
    /\ ~discr.instrumented
    /\ benchmarks >= 1
    /\ Len(launches) >= 2
    /\ discr.inner_flux_counter = 0
    /\ discr.inner_flux_timer = <<>>

\* ------------------------------------------------ faces and their vertices

\* the vertices (A = 0, B = 1, ...) spanning each face: AB, BC, AC and
\* ABC, ABD, ACD, BCD
FaceVertexSets ==
    CASE kind = "triangle" -> << {0, 1}, {1, 2}, {0, 2} >>
      [] kind = "tetrahedron" -> << {0, 1, 2}, {0, 1, 3}, {0, 2, 3}, {1, 2, 3} >>
      [] OTHER -> <<>>

\* order times the barycentric coordinate of a node with respect to vertex v
BarycentricWeight(nt, v) == IF v = 0 THEN order - SumSeq(nt) ELSE nt[v]

\* the node lies in the face spanned by the vertices vs
LiesOnFace(nt, vs) ==
    \A v \in 0..dimensions(kind) : v \notin vs => BarycentricWeight(nt, v) = 0

\* vertex_indices() and face_indices() have both returned
NumberingKnown ==
    /\ kind \in {"triangle", "tetrahedron"}
    /\ order >= 1
    /\ memo["node_tuples"].st = "ok"
    /\ memo["vertex_indices"].st = "ok"
    /\ memo["face_indices"].st = "ok"

\* C25: for order >= 1, with vertex_indices() = [A, B, C(, D)], the faces of
\* the triangle hold exactly the vertex pairs {A,B}, {B,C}, {A,C} and the
\* faces of the tetrahedron exactly {A,B,C}, {A,B,D}, {A,C,D}, {B,C,D}; each
\* face holds every node lying on that face, once, and no other node.
C25_FacesSpannedByTheirVertices ==
    NumberingKnown =>
        LET node_tups == memo["node_tuples"].val
            vi == memo["vertex_indices"].val
            fi == memo["face_indices"].val
        IN  /\ Len(vi) = dimensions(kind) + 1
            /\ Len(fi) = Len(FaceVertexSets)
            /\ Cardinality(Range(vi)) = Len(vi)
            /\ \A f \in 1..Len(fi) :
                /\ {v \in 0..dimensions(kind) : vi[v + 1] \in Range(fi[f])}
                        = FaceVertexSets[f]
                /\ Range(fi[f]) =
                        {i - 1 : i \in {j \in 1..Len(node_tups) :
                                    LiesOnFace(node_tups[j], FaceVertexSets[f])}}
                /\ Cardinality(Range(fi[f])) = Len(fi[f])

\* a tetrahedron of order 2 with both numberings known
C25_Witness ==
    /\ NumberingKnown
    /\ kind = "tetrahedron"
    /\ order = 2
    /\ Len(memo["face_indices"].val[4]) = 6

\* a triangle in the fancy node ordering with both numberings known
C25_WitnessFancy ==
    /\ NumberingKnown
    /\ kind = "triangle"
    /\ fancy_node_ordering
    /\ order = 3
    /\ memo["vertex_indices"].val # <<0, 3, 9>>

\* ------------------------------------------------- fancy node ordering

\* a call of node_tuples() on a triangle built with fancy_node_ordering=True
FancyNodeTuplesCalled ==
    /\ kind = "triangle"
    /\ fancy_node_ordering
    /\ last.op = "node_tuples"

\* the node tuples of the default ordering
DefaultNodeTuples == node_tuples_body("triangle", order, FALSE).val

C26_PermutationFromOrderOne ==
    FancyNodeTuplesCalled =>
        IF order = 0
        THEN last.res = Raise("AssertionError")
        ELSE /\ last.res.st = "ok"
             /\ IsPermutationOf(last.res.val, DefaultNodeTuples)

\* a fancy ordering that differs from the default one
C26_Reordered ==
    /\ FancyNodeTuplesCalled
    /\ order = 2
    /\ last.res.st = "ok"
    /\ last.res.val # DefaultNodeTuples

\* ---------------------------------------------- the output index of a store

LaunchOver ==
    /\ launch # <<>>
    /\ launch.ran = Len(Blocks(launch.variant, launch.pl, launch.grid))

\* the entries global_mb_nr*aligned_floats + dof of the valid dofs of the
\* microblocks of the launch
ValidEntries ==
    {g * launch.pl.aligned_floats + dof :
        g \in 0..(launch.grid * launch.pl.p * launch.pl.s - 1),
        dof \in 0..(launch.pl.dofs_per_el * launch.pl.elements - 1)}

\* C27: in one launch of either kernel, the map from (block, parallel
\* lane, sequential iteration, thread dof) to the written output index is
\* injective and covers every valid dof: no two stores go to the same entry,
\* every store goes to an entry global_mb_nr*aligned_floats + dof with
\* dof < DOFS_PER_EL*MB_EL_COUNT and global_mb_nr < grid*PAR_MB_COUNT*
\* SEQ_MB_COUNT, and at the end of the launch each such entry was written.
C27_OutputIndexInjectiveAndCovering ==
    launch # <<>> =>
        /\ \A e1, e2 \in launch.stores : e1.index = e2.index => e1 = e2
        /\ \A e \in launch.stores : e.index \in ValidEntries
        /\ LaunchOver => {e.index : e \in launch.stores} = ValidEntries

\* a finished launch of the chunked kernel with two macroblocks, two lanes,
\* two iterations, padding and more than one chunk
C27_Witness ==
    /\ LaunchOver
    /\ launch.variant = "chunked"
    /\ launch.grid = 2 /\ launch.pl.p = 2 /\ launch.pl.s = 2
    /\ launch.pl.chunk_size = 2
    /\ launch.pl.dofs_per_el = 3 /\ launch.pl.elements = 2
    /\ launch.pl.aligned_floats = 7
    /\ Cardinality(launch.stores) = 48

\* a finished launch of the staged kernel of the same size
C27_WitnessStaged ==
    /\ LaunchOver
    /\ launch.variant = "staged"
    /\ launch.grid = 2 /\ launch.pl.p = 2 /\ launch.pl.s = 2
    /\ launch.pl.dofs_per_el = 3 /\ launch.pl.elements = 2
    /\ launch.pl.aligned_floats = 7
    /\ Cardinality(launch.stores) = 48

\* ------------------------------------------- batched against direct fetch

\* a thread of a one-element chunk with a valid dof, its sum complete
BatchedSumComplete(t) ==
    /\ AtInstr(t, "store")
    /\ chunk_el_count = 1
    /\ MB_DOF(lplan, MB_CHUNK, t) < lplan.dofs_per_el * lplan.elements

\* C28: for a chunk with chunk_el_count = 1, the batched-fetch path gives
\* every thread with a valid dof the accumulated result the direct-fetch
\* path would give it: each face dof j of the thread's element taken in this
\* iteration, multiplied with matrix entry (CHUNK_DOF, j), once.
C28_BatchedEqualsDirect ==
    \A t \in DOMAIN pc :
        BatchedSumComplete(t) =>
            pc[t].result = direct_products(lplan, pc[t].seq, pc[t].dof_el)

\* the statements of the batched path: every face dof j has one multiply, in
\* the batch of its load_chunk_start, reading staging index j -
\* load_chunk_start in 0..chunk_size-1; the thread's sum has one product per
\* face dof, in order, and the element fetched from is the thread's dof_el
C28_StagingIndices ==
    \A t \in DOMAIN pc :
        BatchedSumComplete(t) =>
            LET code == get_batched_fetch_mat_mul_code(lplan)
                muls == SelectSeq(code, LAMBDA i : i.op = "mul")
            IN  /\ pc[t].path = "batched"
                /\ [i \in 1..Len(muls) |-> muls[i].dof]
                        = PyRange(lplan.face_dofs_per_el)
                /\ \A i \in 1..Len(muls) :
                    /\ muls[i].dof - muls[i].start \in 0..(lplan.chunk_size - 1)
                    /\ muls[i].start % lplan.chunk_size = 0
                /\ [i \in 1..Len(pc[t].result) |-> pc[t].result[i].col]
                        = PyRange(lplan.face_dofs_per_el)
                /\ \A i \in 1..Len(pc[t].result) :
                        pc[t].result[i].el = pc[t].dof_el
                /\ chunk_start_el = pc[t].dof_el

\* a thread whose batched sum equals the direct one, over two batches
C28_SameAsDirect ==
    \E t \in DOMAIN pc :
        /\ BatchedSumComplete(t)
        /\ lplan.face_dofs_per_el = 3 /\ lplan.chunk_size = 2
        /\ pc[t].result = direct_products(lplan, pc[t].seq, pc[t].dof_el)

\* ------------------------------------------------------------ termination

\* every thread of the block has left the kernel
AllThreadsDone ==
    /\ \A t \in DOMAIN pc : pc[t].at = "done"
    /\ \A t \in DOMAIN pc_alt : pc_alt[t].at = "done"

\* C29: every launch of either kernel terminates with no thread left
\* waiting at a barrier: every __syncthreads() is reached by all threads of
\* the block, so each barrier is released and every thread reaches the end
\* of the kernel.
C29_LaunchTerminates == <>AllThreadsDone

\* no thread has left the kernel while another waits at a barrier, and the
\* threads that wait in a loop body wait in the same iteration of the same
\* branch
C29_NoThreadLeftAtBarrier ==
    /\ \A t, u \in DOMAIN pc :
            AtBarrier(t) =>
                /\ pc[u].at # "done"
                /\ (AtInstr(t, "sync") /\ AtInstr(u, "sync")) =>
                        /\ pc[t].branch = pc[u].branch
                        /\ pc[t].seq = pc[u].seq
                        /\ pc[t].ip = pc[u].ip
    /\ \A t, u \in DOMAIN pc_alt :
            AtStagedInstr(t, "sync") =>
                /\ pc_alt[u].at # "done"
                /\ AtStagedInstr(u, "sync") =>
                        /\ pc_alt[t].seq = pc_alt[u].seq
                        /\ pc_alt[t].ip = pc_alt[u].ip

\* a block of two threads of the chunked kernel has run two iterations of
\* the batched path, each with its barriers, and has left the kernel
C29_Witness ==
    /\ Cardinality(DOMAIN pc) = 2
    /\ \A t \in DOMAIN pc :
            pc[t].at = "done" /\ pc[t].path = "batched" /\ pc[t].seq = 2
    /\ lplan.face_dofs_per_el = 3 /\ lplan.chunk_size = 2

\* a block of the staged kernel with a thread in the padding has left the
\* kernel after two iterations
C29_WitnessStaged ==
    /\ Cardinality(DOMAIN pc_alt) = 2
    /\ \A t \in DOMAIN pc_alt : pc_alt[t].at = "done" /\ pc_alt[t].seq = 2
    /\ plan.aligned_floats > plan.dofs_per_el * plan.elements

\* ------------------------------------------------ the uint16 chunk tables

\* the table entries as get_kernel computes them, before they are stored as
\* uint16
StartEl(pl, c) == (c * pl.chunk_size) \div pl.dofs_per_el
StopEl(pl, c) ==
    Min(pl.elements, (c * pl.chunk_size + pl.chunk_size - 1) \div pl.dofs_per_el + 1)

\* thread 0 of the block has set the shared responsibility data
ResponsibilitySet ==
    /\ pc # <<>>
    /\ \E t \in DOMAIN pc :
            THREAD_NUM(lplan, t) = 0 /\ pc[t].at # "responsibility"

\* C30: for every chunk index c in 0..chunks_per_microblock-1, chunks wholly
\* in the alignment padding included, chunk_start_el_lookup[c] <=
\* chunk_stop_el_lookup[c], both entries fit in 16 bits, and the uint16
\* subtraction chunk_el_count = chunk_stop_el - chunk_start_el does not wrap
\* around modulo 2^16.
C30_ChunkElCountNeverWraps ==
    pc # <<>> =>
        /\ \A c \in 0..(chunks_per_microblock(lplan) - 1) :
            /\ mod.chunk_start_el_lookup[c + 1] <= mod.chunk_stop_el_lookup[c + 1]
            /\ mod.chunk_start_el_lookup[c + 1] = StartEl(lplan, c)
            /\ mod.chunk_stop_el_lookup[c + 1] = StopEl(lplan, c)
        /\ ResponsibilitySet =>
                chunk_el_count = StopEl(lplan, MB_CHUNK) - StartEl(lplan, MB_CHUNK)

\* what the code does: no wrap as long as the padding of the microblock is
\* at most one element long; the start entry is not clipped to the elements
\* of the microblock as the stop entry is
C30_NoWrapUpToOneElementOfPadding ==
    (/\ pc # <<>>
     /\ lplan.aligned_floats - lplan.dofs_per_el * lplan.elements
            <= lplan.dofs_per_el) =>
        /\ \A c \in 0..(chunks_per_microblock(lplan) - 1) :
            /\ mod.chunk_start_el_lookup[c + 1] <= mod.chunk_stop_el_lookup[c + 1]
            /\ mod.chunk_start_el_lookup[c + 1] = StartEl(lplan, c)
            /\ mod.chunk_stop_el_lookup[c + 1] = StopEl(lplan, c)
        /\ ResponsibilitySet =>
                chunk_el_count = StopEl(lplan, MB_CHUNK) - StartEl(lplan, MB_CHUNK)

\* a block of a chunk in the padding whose chunk_el_count has wrapped
C30_Wrapped ==
    /\ ResponsibilitySet
    /\ chunk_start_el > chunk_stop_el
    /\ chunk_el_count = UInt16 - 1

\* a block of a chunk wholly in the padding whose chunk_el_count is 0
C30_EmptyChunk ==
    /\ ResponsibilitySet
    /\ MB_CHUNK * lplan.chunk_size >= lplan.dofs_per_el * lplan.elements
    /\ chunk_start_el = chunk_stop_el
    /\ chunk_el_count = 0

====
